---- MODULE Spec2Model ----
(***************************************************************************)
(* A model of the backend's real-time event pipeline:                      *)
(*   - the threaded AudioCapture queue, the SpeechHapticPipeline           *)
(*     orchestrator loop with its start/stop control, the phrase           *)
(*     segmentation and the intensity classification of                    *)
(*     backend/speech_haptic_pipeline.py;                                  *)
(*   - the PhonemeEngine of backend/phoneme_engine.py;                     *)
(*   - the ViewerManager of backend/websocket_server.py;                   *)
(*   - the mouth movement tracking of backend/lip_reading.py.              *)
(*                                                                         *)
(* Units.  Energy (rms) is an integer in units of 1e-5, so 0.01 is 1000    *)
(* and 0.04 is 4000.  Time is an integer in units of 0.25 s, so the 0.5 s  *)
(* cadence is 2 and a phoneme of 1 s lasts 4.  Mouth openness is an        *)
(* integer in units of 0.001.  The capture instants of the chunks are      *)
(* named by the chunks' numbers: the k-th chunk carries timestamp k.  A    *)
(* text is a sequence of tokens, each token a word or one punctuation      *)
(* character; whitespace is the boundary between tokens.                   *)
(***************************************************************************)
EXTENDS Integers, Sequences, FiniteSets, TLC

VARIABLES
    \* AudioCapture
    chunks,            \* AudioCapture._chunks, oldest first
    audioRunning,      \* AudioCapture._running
    captured,          \* number of chunks the capture loop has produced
    dropped,           \* history: ids of the chunks evicted on overflow
    popRet,            \* history: what the consumer's last pop_chunk returned
    delivered,         \* history: ids pop_chunk returned to the consumer, in
                       \* order
    pops,              \* history: number of pop_chunk calls of the consumer
    \* SpeechHapticPipeline
    running,           \* status.running
    started_at,        \* status.started_at
    total_chunks_sent, \* status.total_chunks_sent
    latest_transcript, \* status.latest_transcript
    latest_rms,        \* status.latest_rms
    chunk_index,       \* _chunk_index
    full_transcript,   \* _full_transcript
    last_push_time,    \* _last_push_time
    cb,                \* _broadcast_cb is set
    hasKey,            \* transcriber.api_key is non-empty
    client,            \* transcriber._client: "none", "open" or "closed"
    pc,                \* where the _run_loop task is suspended
    chunk,             \* _run_loop's local chunk
    phrases,           \* _run_loop's phrases still to dispatch
    wakeAt,            \* when the cadence sleep ends
    starts,            \* number of start() calls that started a run
    startResult,       \* history: whether the last start() call returned or
                       \* raised
    now,               \* time.time()
    calls,             \* history: the loop's calls to the broadcast callback
                       \* and to the transcriber for its current chunk, in
                       \* order
    lastStt,           \* history: the response to the transcription call
                       \* for the current chunk
    sent,              \* history: the phrase event broadcast last
    emitted,           \* history: number of phrase events the loop has
                       \* composed since the last start() that began a run
    \* phrase segmentation
    text,              \* the text handed to _split_phrases
    \* AudioCapture's device
    stream,            \* AudioCapture._stream is set
    pa,                \* AudioCapture._pa is set
    thread,            \* AudioCapture._thread is set
    audioLog,          \* history: the last calls of start and stop, in order
    \* intensity classification
    energy,            \* the energy handed to _rms_to_intensity
    tier,              \* what _rms_to_intensity returned for it
    \* PhonemeEngine
    lesson_phonemes,       \* PhonemeEngine.lesson_phonemes
    current_time_offset,   \* PhonemeEngine.current_time_offset
    is_playing,            \* PhonemeEngine.is_playing
    last_processed_time,   \* PhonemeEngine.last_processed_time
    on_haptic_trigger,     \* PhonemeEngine.on_haptic_trigger is set
    triggered,         \* history: ids of the phonemes the last update call
                       \* handed to the haptic callback, in order
    loadResult,        \* history: what the last load_lesson returned
    engineOp,          \* history: the last operation called on the engine
    \* ViewerManager
    viewers,           \* ViewerManager.viewers
    viewer_metadata,   \* the keys of ViewerManager.viewer_metadata
    bcast,             \* the broadcast calls in flight, one per caller
    accepted,          \* history: the sockets connect has registered so far
    \* LipReadingEngine mouth tracking
    prev_openness,     \* _prev_openness
    openness_history,  \* _openness_history
    mouth_state,       \* _mouth_state
    talking_frames,    \* _talking_frames
    returned,          \* history: the states update_mouth_state returned, in
                       \* order
    \* the speech-haptic endpoint
    clients,           \* the sockets registered with speech_haptic_ws_manager
    serving,           \* per client socket, where its handler is: "none"
                       \* before it connects, "receiving" in its loop, "ended"
    lastMsg,           \* history: the inbound message handled last
    \* HapticEventManager
    haptic_patterns,   \* HapticEventManager.haptic_patterns
    events,            \* history: the haptic events trigger_haptic composed,
                       \* in order
    \* ConnectionManager and the phone loop of trigger_haptic
    active_connections,    \* ConnectionManager.active_connections
    connection_metadata,   \* the keys of ConnectionManager.connection_metadata
    phones,            \* history: the sockets ConnectionManager.connect has
                       \* registered so far
    fan,               \* the call of trigger_haptic in flight
    \* AudioCapture's threads
    loops,             \* the capture threads start() has created, in order:
                       \* where each is in _capture_loop, the reads in its
                       \* local buf and, as history, its failed reads
    lastPush,          \* history: the thread that queued the last chunk and
                       \* the reads of it that had failed by then
    \* SpeechHapticPipeline's loop tasks
    tasks,             \* the tasks start() has created for _run_loop, in
                       \* order: where each is suspended, whether it has been
                       \* cancelled and, as history, the phrase events it
                       \* has emitted
    awaiting           \* the tasks that a call of stop() in flight awaits

audioVars == <<chunks, audioRunning, captured, dropped, popRet, delivered,
               pops, stream, pa, thread>>
statusVars == <<running, started_at, total_chunks_sent, latest_transcript,
                latest_rms>>
loopVars == <<pc, chunk, phrases, wakeAt>>
pipeVars == <<statusVars, chunk_index, full_transcript, last_push_time, cb,
              hasKey, client, loopVars, starts, startResult, now, calls,
              lastStt, sent, emitted>>
deviceVars == <<stream, pa, thread>>
classVars == <<energy, tier>>
engineVars == <<lesson_phonemes, current_time_offset, is_playing,
                last_processed_time, on_haptic_trigger, triggered, loadResult,
                engineOp>>
hubVars == <<viewers, viewer_metadata, bcast, accepted>>
mouthVars == <<prev_openness, openness_history, mouth_state, talking_frames,
               returned>>
msgVars == <<clients, serving, lastMsg>>
triggerVars == <<haptic_patterns, events>>
sourceVars == <<active_connections, connection_metadata, phones, fan>>
readVars == <<loops, lastPush>>
controlVars == <<tasks, awaiting>>
extVars == <<audioLog, classVars, engineVars, hubVars, mouthVars, msgVars,
             triggerVars, sourceVars, readVars,
             controlVars>>
vars == <<audioVars, pipeVars, text, extVars>>

----------------------------------------------------------------------------
(* Bounds of the model *)

MaxCaptured == 7      \* chunks produced in the capture-only specification
MaxPops == 7          \* pop_chunk calls in the capture-only specification
MaxChunks == 2        \* chunks produced in the pipeline specification
MaxTime == 4          \* last instant of the clock
MaxStarts == 2        \* runs of the pipeline
MaxLen == 10          \* tokens of a text built token by token
MaxDelta == 5         \* energies this far around each point are classified
MaxClock == 10        \* last value ticks take the playback clock to
MaxSinks == 3         \* sockets that connect as viewers
MaxSamples == 4       \* openness samples delivered
MaxClients == 2       \* sockets that connect to the speech-haptic endpoint
MaxTriggers == 2      \* calls of trigger_haptic
MaxWords == 5         \* tokens appended to a text with punctuation inside
MaxShared == 2        \* viewers that overlapping broadcasts send to
MaxErrors == 1        \* failed reads of the capture threads
MaxQueued == 1        \* chunks the capture threads queue, read by read
MaxPhones == 2        \* sockets of each role where trigger_haptic delivers

(* Program constants *)

QueueCap == 5                     \* "Keep at most 5 queued chunks"
SILENCE_RMS_THRESHOLD == 1000     \* 0.01
SPEAKING_RMS_THRESHOLD == 4000    \* 0.04
Cadence == 2                      \* 0.5 s
MAX_PHRASE_WORDS == 8
MIN_PHRASE_WORDS == 2
FAST_INDEX == -1                  \* "Special index for fast pulses"
HistoryLen == 10                  \* samples _openness_history keeps
READS_PER_CHUNK == 12             \* reads of CHUNK_FRAMES frames in 1.2 s

----------------------------------------------------------------------------
(* AudioCapture *)

NoChunk == [id |-> -1, rms |-> 0, ts |-> 0]     \* Python's None

AudioChunk(i, r, t) == [id |-> i, rms |-> r, ts |-> t]

\* The critical section of _capture_loop: evict the oldest when 5 are queued,
\* then append.
PushUnbounded(q, c) == Append(q, c)

PushEvictNewestQueued(q, c) ==
    IF Len(q) >= QueueCap THEN Append(SubSeq(q, 1, Len(q) - 1), c)
    ELSE Append(q, c)

PushChunk(q, c) ==
    IF Len(q) >= QueueCap THEN Append(Tail(q), c) ELSE Append(q, c)

\* The chunk an overflowing push evicts.
Evicted(q) == IF Len(q) >= QueueCap THEN {Head(q).id} ELSE {}

\* pop_chunk: the value returned and the queue left behind.
PopNewest(q) == IF q # <<>> THEN q[Len(q)] ELSE NoChunk
pop_chunk(q) == IF q # <<>> THEN Head(q) ELSE NoChunk

RestAfterPopKeeps(q) == q

RestAfterPop(q) == IF q # <<>> THEN Tail(q) ELSE q

\* AudioCapture.start raises when it has to open the device and the device
\* does not open.
StartRaises(opens) == ~audioRunning /\ ~opens

\* AudioCapture.start: nothing when already running; else PyAudio is
\* created and the device opened, and when that raises nothing further is
\* done; else the flag is set and the capture thread created.
AudioStartMarksRunningFirst(opens) ==
    IF audioRunning
    THEN UNCHANGED <<audioRunning, stream, pa, thread>>
    ELSE IF ~opens
    THEN /\ audioRunning' = TRUE
         /\ pa' = TRUE
         /\ UNCHANGED <<stream, thread>>
    ELSE /\ pa' = TRUE
         /\ stream' = TRUE
         /\ audioRunning' = TRUE
         /\ thread' = TRUE

AudioStart(opens) ==
    IF audioRunning
    THEN UNCHANGED <<audioRunning, stream, pa, thread>>
    ELSE IF ~opens
    THEN /\ pa' = TRUE
         /\ UNCHANGED <<audioRunning, stream, thread>>
    ELSE /\ pa' = TRUE
         /\ stream' = TRUE
         /\ audioRunning' = TRUE
         /\ thread' = TRUE

\* AudioCapture.stop: the flag is cleared, the thread joined, the stream
\* closed and the device terminated where they are set, and the three
\* references are cleared.
AudioStopKeepsThread ==
    /\ audioRunning' = FALSE
    /\ stream' = FALSE
    /\ pa' = FALSE
    /\ thread' = thread

AudioStop ==
    /\ audioRunning' = FALSE
    /\ stream' = FALSE
    /\ pa' = FALSE
    /\ thread' = FALSE

\* The last two calls of start and stop.
LogCall(log, op) == IF Len(log) < 2 THEN Append(log, op) ELSE <<log[2], op>>

\* One iteration of _capture_loop that completes a 1.2 s chunk and queues it
\* under the lock.
CaptureLoop(levels, limit) ==
    /\ audioRunning
    /\ captured < limit
    /\ \E r \in levels :
         LET c == AudioChunk(captured, r, captured) IN
         /\ chunks' = PushChunk(chunks, c)
         /\ dropped' = dropped \cup Evicted(chunks)
    /\ captured' = captured + 1
    /\ UNCHANGED <<audioRunning, deviceVars, popRet, delivered, pops>>

\* A consumer's call of pop_chunk, under the lock.
ConsumerPop ==
    /\ pops < MaxPops
    /\ pops' = pops + 1
    /\ popRet' = pop_chunk(chunks)
    /\ chunks' = RestAfterPop(chunks)
    /\ delivered' = IF pop_chunk(chunks) = NoChunk THEN delivered
                    ELSE Append(delivered, pop_chunk(chunks).id)
    /\ UNCHANGED <<audioRunning, deviceVars, captured, dropped>>

AudioInit ==
    /\ chunks = <<>>
    /\ audioRunning = FALSE
    /\ stream = FALSE
    /\ pa = FALSE
    /\ thread = FALSE
    /\ captured = 0
    /\ dropped = {}
    /\ popRet = NoChunk
    /\ delivered = <<>>
    /\ pops = 0

----------------------------------------------------------------------------
(* AudioCapture's threads, read by read *)

\* A thread that runs _capture_loop: in stream.read ("read"), in the sleep
\* after a failed read ("sleep") or past the loop ("ended"); buf counts the
\* reads its local buf holds, which is gone when the thread has ended. A
\* thread passes the while test in the step that brings it there: the thread
\* start() creates finds the flag start() has just set.
NewLoop == [at |-> "read", buf |-> 0, errs |-> 0]

NoPush == [by |-> 0, errs |-> 0]

\* while self._running
loop_test(th, run) ==
    IF run THEN [th EXCEPT !.at = "read"]
    ELSE [th EXCEPT !.at = "ended", !.buf = 0]

\* A read returns: buf += data, and a chunk is cut off buf when it holds
\* 1.2 s of audio.
CompletesChunk(th) == th.buf + 1 >= READS_PER_CHUNK

read_returned(th, run) ==
    loop_test([th EXCEPT !.buf = IF CompletesChunk(th)
                                  THEN th.buf + 1 - READS_PER_CHUNK
                                  ELSE th.buf + 1], run)

\* A read raises: the handler sleeps 0.1 s when capture is running, and the
\* loop goes on.
ReadFailedDropsBuffer(th, run) ==
    IF run THEN [th EXCEPT !.at = "sleep", !.buf = 0, !.errs = @ + 1]
    ELSE loop_test([th EXCEPT !.errs = @ + 1], run)

read_failed(th, run) ==
    IF run THEN [th EXCEPT !.at = "sleep", !.errs = @ + 1]
    ELSE loop_test([th EXCEPT !.errs = @ + 1], run)

\* What the thread stop() joins does until the join returns, the running
\* flag being cleared: from the sleep it ends; from a read it ends when the
\* read returns or raises within the 2 s, a completed chunk being queued
\* first; a read that stays blocked leaves it where it is and the join
\* times out.
JoinOutcomes == {"returned", "raised", "blocked"}

Joined(th, outcome) ==
    IF th.at # "read" THEN loop_test(th, FALSE)
    ELSE IF outcome = "returned" THEN read_returned(th, FALSE)
    ELSE IF outcome = "raised" THEN read_failed(th, FALSE)
    ELSE th

\* The failed reads of all threads.
RECURSIVE FailedReads(_)
FailedReads(ls) ==
    IF ls = <<>> THEN 0 ELSE ls[1].errs + FailedReads(Tail(ls))

\* The variables the capture threads, start and stop do not touch.
nonRead == <<popRet, delivered, pops, pipeVars, text, audioLog, classVars,
             engineVars, hubVars, mouthVars, msgVars, triggerVars,
             sourceVars, controlVars>>

\* The chunk a thread queues under the lock, and the record of who queued.
QueueChunk(t) ==
    /\ captured < MaxQueued
    /\ chunks' = PushChunk(chunks, AudioChunk(captured, 4004, captured))
    /\ dropped' = dropped \cup Evicted(chunks)
    /\ captured' = captured + 1
    /\ lastPush' = [by |-> t, errs |-> loops[t].errs]

\* AudioCapture.start, with the thread it creates
ReadsStart ==
    /\ Len(loops) < MaxStarts
    /\ \E opens \in BOOLEAN :
         /\ AudioStart(opens)
         /\ loops' = IF ~audioRunning /\ opens THEN Append(loops, NewLoop)
                     ELSE loops
    /\ UNCHANGED <<chunks, captured, dropped, lastPush, nonRead>>

\* AudioCapture.stop: the flag is cleared, the thread it holds is joined for
\* at most 2 s, the stream is closed and the references are cleared.
ReadsStop ==
    /\ \E outcome \in JoinOutcomes :
         IF thread
         THEN LET th == loops[Len(loops)] IN
              /\ loops' = [loops EXCEPT ![Len(loops)] = Joined(th, outcome)]
              /\ IF th.at = "read" /\ outcome = "returned"
                    /\ CompletesChunk(th)
                 THEN QueueChunk(Len(loops))
                 ELSE UNCHANGED <<chunks, captured, dropped, lastPush>>
         ELSE UNCHANGED <<loops, chunks, captured, dropped, lastPush>>
    /\ AudioStop
    /\ UNCHANGED nonRead

\* A thread's read returns.
ThreadReadReturns ==
    /\ \E t \in 1..Len(loops) :
         /\ loops[t].at = "read"
         /\ loops' = [loops EXCEPT
                         ![t] = read_returned(loops[t], audioRunning)]
         /\ IF CompletesChunk(loops[t]) THEN QueueChunk(t)
            ELSE UNCHANGED <<chunks, captured, dropped, lastPush>>
    /\ UNCHANGED <<audioRunning, deviceVars, nonRead>>

\* A thread's read raises.
ThreadReadFails ==
    /\ FailedReads(loops) < MaxErrors
    /\ \E t \in 1..Len(loops) :
         /\ loops[t].at = "read"
         /\ loops' = [loops EXCEPT ![t] = read_failed(loops[t], audioRunning)]
    /\ UNCHANGED <<audioRunning, deviceVars, chunks, captured, dropped,
                   lastPush, nonRead>>

\* A thread's sleep after a failed read ends.
ThreadWake ==
    /\ \E t \in 1..Len(loops) :
         /\ loops[t].at = "sleep"
         /\ loops' = [loops EXCEPT ![t] = loop_test(loops[t], audioRunning)]
    /\ UNCHANGED <<audioRunning, deviceVars, chunks, captured, dropped,
                   lastPush, nonRead>>

ReadInit ==
    /\ loops = <<>>
    /\ lastPush = NoPush

----------------------------------------------------------------------------
(* Phrase segmentation *)

SPLIT_WORDS == {"and", "but", "or", "so", "because", "then", "when", "while",
                "if", "although", "that", "which", "where", "after", "before",
                "since", "for", "with", "from", "into", "about", "like",
                "just"}

\* The characters of the class re.split cuts on.
Punctuation == {".", "!", "?", ",", ";", ":", "-", "en-dash", "em-dash"}

\* str.lower on the words of the model's vocabulary.
Lower(w) == CASE w = "And" -> "and"
              [] w = "I" -> "i"
              [] OTHER -> w

\* re.split(r'[.!?,;:\-–—]+', text) followed by segment.split(): the words
\* between runs of punctuation, one sequence per segment (the empty segments
\* before a leading and after a trailing run included, as re.split returns
\* them).
RECURSIVE DropPunctuation(_)
DropPunctuation(t) ==
    IF t # <<>> /\ Head(t) \in Punctuation THEN DropPunctuation(Tail(t))
    ELSE t

RECURSIVE RawSegments(_, _)
RawSegments(t, cur) ==
    IF t = <<>> THEN <<cur>>
    ELSE IF Head(t) \in Punctuation
         THEN <<cur>> \o RawSegments(DropPunctuation(t), <<>>)
         ELSE RawSegments(Tail(t), Append(cur, Head(t)))

\* The word-by-word scan of a segment of more than MAX_PHRASE_WORDS words.
RECURSIVE ScanWordsCutsAtAnySplitWord(_, _)
ScanWordsCutsAtAnySplitWord(words, current) ==
    IF words = <<>>
    THEN (IF current # <<>> THEN <<current>> ELSE <<>>)
    ELSE LET cur == Append(current, Head(words)) IN
         IF Lower(Head(words)) \in SPLIT_WORDS
         THEN <<cur>> \o ScanWordsCutsAtAnySplitWord(Tail(words), <<>>)
         ELSE IF Len(cur) >= MAX_PHRASE_WORDS
              THEN <<cur>> \o ScanWordsCutsAtAnySplitWord(Tail(words), <<>>)
              ELSE ScanWordsCutsAtAnySplitWord(Tail(words), cur)

RECURSIVE ScanWordsDropsRemainder(_, _)
ScanWordsDropsRemainder(words, current) ==
    IF words = <<>>
    THEN <<>>
    ELSE LET cur == Append(current, Head(words)) IN
         IF Lower(Head(words)) \in SPLIT_WORDS /\ Len(cur) >= MIN_PHRASE_WORDS
         THEN <<cur>> \o ScanWordsDropsRemainder(Tail(words), <<>>)
         ELSE IF Len(cur) >= MAX_PHRASE_WORDS
              THEN <<cur>> \o ScanWordsDropsRemainder(Tail(words), <<>>)
              ELSE ScanWordsDropsRemainder(Tail(words), cur)

RECURSIVE ScanWords(_, _)
ScanWords(words, current) ==
    IF words = <<>>
    THEN (IF current # <<>> THEN <<current>> ELSE <<>>)
    ELSE LET cur == Append(current, Head(words)) IN
         IF Lower(Head(words)) \in SPLIT_WORDS /\ Len(cur) >= MIN_PHRASE_WORDS
         THEN <<cur>> \o ScanWords(Tail(words), <<>>)
         ELSE IF Len(cur) >= MAX_PHRASE_WORDS
              THEN <<cur>> \o ScanWords(Tail(words), <<>>)
              ELSE ScanWords(Tail(words), cur)

\* The body of the loop over raw_segments.
SegmentPhrases(words) ==
    IF words = <<>> THEN <<>>
    ELSE IF Len(words) <= MAX_PHRASE_WORDS THEN <<words>>
    ELSE ScanWords(words, <<>>)

RECURSIVE AllPhrases(_)
AllPhrases(segs) ==
    IF segs = <<>> THEN <<>>
    ELSE SegmentPhrases(Head(segs)) \o AllPhrases(Tail(segs))

\* What a whitespace-delimited token of the vocabulary is spelled of:
\* re.split cuts at a punctuation character wherever it stands, also inside
\* such a token.
Spelling(tok) ==
    IF tok = "milk-and" THEN <<"milk", "-", "and">> ELSE <<tok>>

RECURSIVE Spelled(_)
Spelled(t) ==
    IF t = <<>> THEN <<>> ELSE Spelling(Head(t)) \o Spelled(Tail(t))

\* _split_phrases: the phrases of a text, each a sequence of words.
split_phrases(t) == SelectSeq(AllPhrases(RawSegments(Spelled(t), <<>>)),
                              LAMBDA p : p # <<>>)

\* The sentence of the segmentation example.
ExampleSentence == <<"I", "went", "to", "the", "store", "and", "bought",
                     "some", "milk", "and", "bread">>

Tokens == {"milk", "and", ","}

\* A caller builds a text token by token.
SplitAppend ==
    /\ Len(text) < MaxLen
    /\ \E tok \in Tokens : text' = Append(text, tok)

\* A caller hands over the example sentence.
SplitExample ==
    /\ text = <<>>
    /\ text' = ExampleSentence

\* A caller builds a text of tokens some of which have punctuation inside,
\* from nothing or after the example sentence.
WordTokens == Tokens \cup {"milk-and"}

Appended(t) ==
    IF Len(t) >= Len(ExampleSentence)
         /\ SubSeq(t, 1, Len(ExampleSentence)) = ExampleSentence
    THEN Len(t) - Len(ExampleSentence)
    ELSE Len(t)

WordsAppend ==
    /\ Appended(text) < MaxWords
    /\ \E tok \in WordTokens : text' = Append(text, tok)

SplitInit == text = <<>>

----------------------------------------------------------------------------
(* Intensity tiers *)

RmsToIntensityExclusive(rms) ==
    IF rms <= SILENCE_RMS_THRESHOLD THEN "silence"
    ELSE IF rms <= 4000 THEN "low"
    ELSE IF rms <= 10000 THEN "medium"
    ELSE IF rms <= 20000 THEN "high"
    ELSE "burst"

rms_to_intensity(rms) ==
    IF rms < SILENCE_RMS_THRESHOLD THEN "silence"
    ELSE IF rms < 4000 THEN "low"
    ELSE IF rms < 10000 THEN "medium"
    ELSE IF rms < 20000 THEN "high"
    ELSE "burst"

HAPTIC_PATTERNS(intensity) ==
    CASE intensity = "silence" -> <<>>
      [] intensity = "low" -> <<30, 50, 30>>
      [] intensity = "medium" -> <<60, 40, 60>>
      [] intensity = "high" -> <<80, 20, 80, 20, 80>>
      [] intensity = "burst" -> <<100, 15, 100, 15, 100, 15, 100>>

\* The energies handed to the classification: the neighbourhoods of the tier
\* boundaries, of the middle of each tier and of the ends of the range 0..1.
EnergyPoints == {0, 500, 1000, 3500, 4000, 8000, 10000, 15000, 20000, 50000,
                 100000}

Energies == {e \in 0..100000 :
               \E b \in EnergyPoints : e - b \in -MaxDelta..MaxDelta}

\* A caller classifies an energy.
Classify ==
    \E e \in Energies :
       /\ energy' = e
       /\ tier' = rms_to_intensity(e)
       /\ UNCHANGED <<audioVars, pipeVars, text, audioLog, engineVars,
                      hubVars, mouthVars, msgVars, triggerVars,
                      sourceVars, readVars,
                      controlVars>>

ClassInit ==
    /\ energy = 0
    /\ tier = "none"

\* round(rms, 4): to the nearest multiple of 1e-4 (no energy of the model
\* lies halfway between two).
Round4(r) == ((r + 5) \div 10) * 10

----------------------------------------------------------------------------
(* ElevenLabsTranscriber *)

\* What the speech-to-text service may answer: a success with a text (already
\* stripped; possibly empty), an error response, or a failing request.
Transcripts == {<<"hello">>, <<"go", "home", ",", "now">>}

Responses ==
    [kind : {"success"}, text : Transcripts \cup {<<>>}]
        \cup [kind : {"error", "exception"}, text : {<<>>}]

NoResponse == [kind |-> "none", text |-> <<>>]

\* transcribe: the transcript, or the empty text.
transcribe(key, resp) ==
    IF ~key THEN <<>>
    ELSE IF resp.kind = "success" THEN resp.text
    ELSE <<>>

\* The HTTP client a call of transcribe leaves: without a key it returns
\* before _get_client; else _get_client keeps an open client and creates one
\* where there is none or a closed one.
get_client(key, c) == IF key THEN "open" ELSE c

\* close: an open client is closed.
close(c) == IF c = "open" THEN "closed" ELSE c

----------------------------------------------------------------------------
(* SpeechHapticPipeline *)

EnergyEvent(c) ==
    [type |-> "speech_haptic_energy", chunk |-> c.id, rms |-> Round4(c.rms),
     ts |-> c.ts, idx |-> 0, text |-> <<>>, intensity |-> "",
     pattern |-> <<>>]

FastEvent(c) ==
    [type |-> "speech_haptic", chunk |-> c.id, rms |-> Round4(c.rms),
     ts |-> now, idx |-> FAST_INDEX, text |-> <<>>,
     intensity |-> rms_to_intensity(c.rms),
     pattern |-> HAPTIC_PATTERNS(rms_to_intensity(c.rms))]

PhraseEvent(phrase, c, i) ==
    [type |-> "speech_haptic", chunk |-> c.id, rms |-> Round4(c.rms),
     ts |-> now, idx |-> i, text |-> phrase,
     intensity |-> rms_to_intensity(c.rms),
     pattern |-> HAPTIC_PATTERNS(rms_to_intensity(c.rms))]

\* The call of transcriber.transcribe for a chunk.
SttCall(c) ==
    [type |-> "transcribe", chunk |-> c.id, rms |-> 0, ts |-> 0, idx |-> 0,
     text |-> <<>>, intensity |-> "", pattern |-> <<>>]

\* The phrase event broadcast last: its index, its time, the run it is of and
\* its number among all the phrase events broadcast.
NoneSent == [idx |-> 0, ts |-> 0, run |-> 0, n |-> 0]

Sent(last, i) == [idx |-> i, ts |-> now, run |-> starts, n |-> last.n + 1]

\* set_broadcast_callback. Its one caller is the application's startup hook
\* (main.py, line 342), which runs before any request can start the pipeline:
\* the callback is wired before the first start or stays unset.
SetBroadcastCallback ==
    /\ ~cb
    /\ starts = 0 /\ ~running
    /\ cb' = TRUE
    /\ UNCHANGED <<audioVars, statusVars, chunk_index, full_transcript,
                   last_push_time, hasKey, client, loopVars, starts,
                   startResult, now, calls, lastStt, sent, emitted,
                   text, extVars>>

\* start: nothing when already running; else capture is started, and when
\* that raises the call ends there; else the status is replaced, the counters
\* are reset and the loop task is created.
Start ==
    /\ starts < MaxStarts
    /\ \E opens \in BOOLEAN :
         IF running
         THEN UNCHANGED vars
         ELSE /\ AudioStart(opens)
              /\ IF StartRaises(opens)
                 THEN /\ startResult' = "raised"
                      /\ UNCHANGED <<statusVars, chunk_index, full_transcript,
                                     last_push_time, pc, starts, emitted>>
                 ELSE /\ startResult' = "returned"
                      /\ running' = TRUE
                      /\ started_at' = now
                      /\ total_chunks_sent' = 0
                      /\ latest_transcript' = <<>>
                      /\ latest_rms' = 0
                      /\ chunk_index' = 0
                      /\ full_transcript' = <<>>
                      /\ last_push_time' = now
                      /\ pc' = "poll"
                      /\ starts' = starts + 1
                      /\ emitted' = 0
              /\ UNCHANGED <<chunks, captured, dropped, popRet, delivered,
                             pops, cb, hasKey, client, chunk, phrases, wakeAt,
                             now, calls, lastStt, sent, text, extVars>>

\* stop: the flag is cleared and capture stopped; the task is cancelled where
\* it is suspended and runs no further statement of _run_loop; the
\* transcriber's client is closed.
StopLeavesLoop ==
    /\ running' = FALSE
    /\ AudioStop
    /\ pc' = pc
    /\ client' = close(client)
    /\ UNCHANGED <<chunks, captured, dropped, popRet, delivered, pops,
                   started_at, total_chunks_sent, latest_transcript,
                   latest_rms, chunk_index, full_transcript, last_push_time,
                   cb, hasKey, chunk, phrases, wakeAt, starts, startResult,
                   now, calls, lastStt, sent, emitted, text,
                   extVars>>

Stop ==
    /\ running' = FALSE
    /\ AudioStop
    /\ pc' = IF pc = "none" THEN "none" ELSE "done"
    /\ client' = close(client)
    /\ UNCHANGED <<chunks, captured, dropped, popRet, delivered, pops,
                   started_at, total_chunks_sent, latest_transcript,
                   latest_rms, chunk_index, full_transcript, last_push_time,
                   cb, hasKey, chunk, phrases, wakeAt, starts, startResult,
                   now, calls, lastStt, sent, emitted, text,
                   extVars>>

\* _run_loop from the end of the energy broadcast to the next await: the
\* silence check, the fast-path pulse, the call of the transcriber.
\* The call of transcriber.transcribe, to its await of the request.
CallTranscribe(c, log) ==
    /\ pc' = "transcribe"
    /\ calls' = Append(log, SttCall(c))
    /\ client' = get_client(hasKey, client)

AfterEnergyNoSilenceSkip(c, log) ==
    IF c.rms > SPEAKING_RMS_THRESHOLD /\ cb
    THEN pc' = "fast_cb" /\ calls' = Append(log, FastEvent(c))
         /\ client' = client
    ELSE CallTranscribe(c, log)

AfterEnergyNoFastPath(c, log) ==
    IF c.rms < SILENCE_RMS_THRESHOLD
    THEN pc' = "poll" /\ calls' = log /\ client' = client
    ELSE CallTranscribe(c, log)

AfterEnergyFastFromSilenceThreshold(c, log) ==
    IF c.rms < SILENCE_RMS_THRESHOLD
    THEN pc' = "poll" /\ calls' = log /\ client' = client
    ELSE IF c.rms >= SILENCE_RMS_THRESHOLD /\ cb
         THEN /\ pc' = "fast_cb"
              /\ calls' = Append(log, FastEvent(c))
              /\ client' = client
         ELSE CallTranscribe(c, log)

AfterEnergy(c, log) ==
    IF c.rms < SILENCE_RMS_THRESHOLD
    THEN pc' = "poll" /\ calls' = log /\ client' = client
    ELSE IF c.rms > SPEAKING_RMS_THRESHOLD /\ cb
         THEN /\ pc' = "fast_cb"
              /\ calls' = Append(log, FastEvent(c))
              /\ client' = client
         ELSE CallTranscribe(c, log)

\* _run_loop from the top of the while loop to the next await.
LoopPollEnergyUnlessSilent ==
    /\ pc = "poll"
    /\ running
    /\ chunks' = RestAfterPop(chunks)
    /\ UNCHANGED <<audioRunning, deviceVars, captured, dropped, popRet,
                   delivered, pops>>
    /\ IF pop_chunk(chunks) = NoChunk
       THEN /\ pc' = "poll"
            /\ UNCHANGED <<latest_rms, chunk, calls, lastStt, client>>
       ELSE /\ chunk' = pop_chunk(chunks)
            /\ latest_rms' = pop_chunk(chunks).rms
            /\ lastStt' = [kind |-> "none", text |-> <<>>]
            /\ IF cb /\ pop_chunk(chunks).rms >= SILENCE_RMS_THRESHOLD
               THEN /\ pc' = "energy_cb"
                    /\ calls' = <<EnergyEvent(pop_chunk(chunks))>>
                    /\ client' = client
               ELSE AfterEnergy(pop_chunk(chunks), <<>>)
    /\ UNCHANGED <<running, started_at, total_chunks_sent, latest_transcript,
                   chunk_index, full_transcript, last_push_time, cb, hasKey,
                   phrases, wakeAt, starts, startResult, now, sent, emitted,
                   text, extVars>>

LoopPoll ==
    /\ pc = "poll"
    /\ IF ~running
       THEN /\ pc' = "done"
            /\ UNCHANGED <<audioVars, latest_rms, chunk, calls, lastStt,
                           client>>
       ELSE /\ chunks' = RestAfterPop(chunks)
            /\ UNCHANGED <<audioRunning, deviceVars, captured, dropped,
                           popRet, delivered, pops>>
            /\ IF pop_chunk(chunks) = NoChunk
               THEN \* asyncio.sleep(0.05), then the loop again
                    /\ pc' = "poll"
                    /\ UNCHANGED <<latest_rms, chunk, calls, lastStt, client>>
               ELSE /\ chunk' = pop_chunk(chunks)
                    /\ latest_rms' = pop_chunk(chunks).rms
                    /\ lastStt' = [kind |-> "none", text |-> <<>>]
                    /\ IF cb
                       THEN /\ pc' = "energy_cb"
                            /\ calls' = <<EnergyEvent(pop_chunk(chunks))>>
                            /\ client' = client
                       ELSE AfterEnergy(pop_chunk(chunks), <<>>)
    /\ UNCHANGED <<running, started_at, total_chunks_sent, latest_transcript,
                   chunk_index, full_transcript, last_push_time, cb, hasKey,
                   phrases, wakeAt, starts, startResult, now, sent, emitted,
                   text, extVars>>

\* The energy broadcast returns.
LoopAfterEnergy ==
    /\ pc = "energy_cb"
    /\ AfterEnergy(chunk, calls)
    /\ UNCHANGED <<audioVars, statusVars, chunk_index, full_transcript,
                   last_push_time, cb, hasKey, chunk, phrases, wakeAt,
                   starts, startResult, now, lastStt, sent, emitted,
                   text, extVars>>

\* The fast-path broadcast returns.
LoopAfterFast ==
    /\ pc = "fast_cb"
    /\ CallTranscribe(chunk, calls)
    /\ UNCHANGED <<audioVars, statusVars, chunk_index, full_transcript,
                   last_push_time, cb, hasKey, chunk, phrases, wakeAt,
                   starts, startResult, now, lastStt, sent, emitted,
                   text, extVars>>

\* The variables the loop over phrases assigns.
LoopState ==
    [pc |-> pc, phrases |-> phrases, chunk_index |-> chunk_index,
     total_chunks_sent |-> total_chunks_sent,
     last_push_time |-> last_push_time, wakeAt |-> wakeAt, calls |-> calls,
     sent |-> sent, emitted |-> emitted]

\* The loop over phrases, from its top with ph still to dispatch (Dispatch)
\* and from the end of the cadence wait (EmitPhrase), to the next await:
\* the values of the loop's variables there, st being their values before.
RECURSIVE Dispatch(_, _), EmitPhrase(_, _)

DispatchNoCadence(ph, st) ==
    IF ph = <<>>
    THEN [st EXCEPT !.pc = "poll", !.phrases = <<>>]
    ELSE EmitPhrase(ph, st)

Dispatch(ph, st) ==
    IF ph = <<>>
    THEN [st EXCEPT !.pc = "poll", !.phrases = <<>>]
    ELSE IF now - st.last_push_time < Cadence
         THEN [st EXCEPT !.pc = "cadence_sleep", !.phrases = ph,
                         !.wakeAt = now + (Cadence - (now - st.last_push_time))]
         ELSE EmitPhrase(ph, st)

EmitPhraseSameIndex(ph, st) ==
    LET st2 == [st EXCEPT !.total_chunks_sent = @ + 1,
                          !.last_push_time = now,
                          !.emitted = @ + 1]
    IN  IF cb
        THEN [st2 EXCEPT !.pc = "phrase_cb", !.phrases = ph,
                         !.calls = Append(@, PhraseEvent(Head(ph), chunk,
                                                         st.chunk_index)),
                         !.sent = Sent(@, st.chunk_index)]
        ELSE Dispatch(Tail(ph), st2)

EmitPhraseCountsBroadcasts(ph, st) ==
    LET st2 == [st EXCEPT !.chunk_index = @ + 1,
                          !.total_chunks_sent = IF cb THEN @ + 1 ELSE @,
                          !.last_push_time = now,
                          !.emitted = @ + 1]
    IN  IF cb
        THEN [st2 EXCEPT !.pc = "phrase_cb", !.phrases = ph,
                         !.calls = Append(@, PhraseEvent(Head(ph), chunk,
                                                         st.chunk_index)),
                         !.sent = Sent(@, st.chunk_index)]
        ELSE Dispatch(Tail(ph), st2)

EmitPhrase(ph, st) ==
    LET st2 == [st EXCEPT !.chunk_index = @ + 1,
                          !.total_chunks_sent = @ + 1,
                          !.last_push_time = now,
                          !.emitted = @ + 1]
    IN  IF cb
        THEN [st2 EXCEPT !.pc = "phrase_cb", !.phrases = ph,
                         !.calls = Append(@, PhraseEvent(Head(ph), chunk,
                                                         st.chunk_index)),
                         !.sent = Sent(@, st.chunk_index)]
        ELSE Dispatch(Tail(ph), st2)

\* The loop's variables take the values of st.
Resume(st) ==
    /\ pc' = st.pc
    /\ phrases' = st.phrases
    /\ chunk_index' = st.chunk_index
    /\ total_chunks_sent' = st.total_chunks_sent
    /\ last_push_time' = st.last_push_time
    /\ wakeAt' = st.wakeAt
    /\ calls' = st.calls
    /\ sent' = st.sent
    /\ emitted' = st.emitted

\* The transcription call returns.
LoopTranscribedRetries ==
    /\ pc = "transcribe"
    /\ \E resp \in Responses :
         LET transcript == transcribe(hasKey, resp) IN
         /\ lastStt' = (IF hasKey THEN resp
                        ELSE [kind |-> "nokey", text |-> <<>>])
         /\ IF transcript = <<>>
            THEN /\ pc' = "transcribe"
                 /\ calls' = Append(calls, SttCall(chunk))
                 /\ UNCHANGED <<full_transcript, latest_transcript, phrases,
                                chunk_index, total_chunks_sent,
                                last_push_time, wakeAt, sent, emitted>>
            ELSE /\ full_transcript' = full_transcript \o transcript
                 /\ latest_transcript' = transcript
                 /\ Resume(Dispatch(split_phrases(transcript), LoopState))
    /\ UNCHANGED <<audioVars, running, started_at, latest_rms, cb, hasKey,
                   client, chunk, starts, startResult, now, text, extVars>>

LoopTranscribed ==
    /\ pc = "transcribe"
    /\ \E resp \in Responses :
         LET transcript == transcribe(hasKey, resp) IN
         /\ lastStt' = (IF hasKey THEN resp
                        ELSE [kind |-> "nokey", text |-> <<>>])
         /\ IF transcript = <<>>
            THEN /\ pc' = "poll"
                 /\ UNCHANGED <<full_transcript, latest_transcript, phrases,
                                chunk_index, total_chunks_sent,
                                last_push_time, wakeAt, calls, sent, emitted>>
            ELSE /\ full_transcript' = full_transcript \o transcript
                 /\ latest_transcript' = transcript
                 /\ Resume(Dispatch(split_phrases(transcript), LoopState))
    /\ UNCHANGED <<audioVars, running, started_at, latest_rms, cb, hasKey,
                   client, chunk, starts, startResult, now, text, extVars>>

\* asyncio.sleep(0.5 - elapsed) returns.
LoopWake ==
    /\ pc = "cadence_sleep"
    /\ now >= wakeAt
    /\ Resume(EmitPhrase(phrases, LoopState))
    /\ UNCHANGED <<audioVars, running, started_at, latest_transcript,
                   latest_rms, full_transcript, cb, hasKey, client, chunk,
                   starts, startResult, now, lastStt, text, extVars>>

\* The broadcast of a phrase event returns.
LoopAfterPhrase ==
    /\ pc = "phrase_cb"
    /\ Resume(Dispatch(Tail(phrases), LoopState))
    /\ UNCHANGED <<audioVars, running, started_at, latest_transcript,
                   latest_rms, full_transcript, cb, hasKey, client, chunk,
                   starts, startResult, now, lastStt, text, extVars>>

\* Time passes.
Tick ==
    /\ now < MaxTime
    /\ now' = now + 1
    /\ UNCHANGED <<audioVars, statusVars, chunk_index, full_transcript,
                   last_push_time, cb, hasKey, client, loopVars, starts,
                   startResult, calls, lastStt, sent, emitted, text, extVars>>

PipelineInit ==
    /\ running = FALSE
    /\ started_at = 0
    /\ total_chunks_sent = 0
    /\ latest_transcript = <<>>
    /\ latest_rms = 0
    /\ chunk_index = 0
    /\ full_transcript = <<>>
    /\ last_push_time = 0
    /\ cb = FALSE
    /\ pc = "none"
    /\ chunk = NoChunk
    /\ phrases = <<>>
    /\ wakeAt = 0
    /\ starts = 0
    /\ now = 0
    /\ calls = <<>>
    /\ lastStt = NoResponse
    /\ sent = NoneSent
    /\ emitted = 0
    /\ client = "none"
    /\ startResult = "none"

----------------------------------------------------------------------------
(* SpeechHapticPipeline: start and stop against the loop tasks.  Each task
   is followed from one await to the next, its work between two awaits
   reduced to what it does to the status, the counters and the transcript. *)

\* A task of _run_loop: suspended in one of the awaits at the top of the
\* while loop ("top": the sleep on an empty queue, the energy and fast-path
\* broadcasts, the transcription), suspended in the loop over phrases
\* ("phrases": the cadence sleep, the broadcast of a phrase event), or ended.
NewTask == [at |-> "top", cancelled |-> FALSE, emits |-> 0]

\* task.cancel(): a request that the task finds at its await; nothing for a
\* task that is done.
cancel(t) == IF t.at = "ended" THEN t ELSE [t EXCEPT !.cancelled = TRUE]

\* The variables start, stop and the loop tasks do not touch.
nonControl == <<chunks, captured, dropped, popRet, delivered, pops,
                latest_rms, cb, hasKey, loopVars, starts, startResult, now,
                calls, lastStt, sent, emitted, text, audioLog, classVars,
                engineVars, hubVars, mouthVars, msgVars, triggerVars,
                sourceVars, readVars>>

\* start
ControlStart ==
    /\ Len(tasks) < MaxStarts
    /\ \E opens \in BOOLEAN :
         IF running
         THEN UNCHANGED vars
         ELSE /\ AudioStart(opens)
              /\ IF StartRaises(opens)
                 THEN UNCHANGED <<running, started_at, total_chunks_sent,
                                  latest_transcript, chunk_index,
                                  full_transcript, last_push_time, tasks>>
                 ELSE /\ running' = TRUE
                      /\ started_at' = now
                      /\ total_chunks_sent' = 0
                      /\ latest_transcript' = <<>>
                      /\ chunk_index' = 0
                      /\ full_transcript' = <<>>
                      /\ last_push_time' = now
                      /\ tasks' = Append(tasks, NewTask)
              /\ UNCHANGED <<client, awaiting, nonControl>>

\* stop, to its await of the task: the flag is cleared, capture stopped and
\* the task cancelled; with no task, or with a task that is done, the call
\* goes on at once and closes the transcriber's client.
ControlStopWithoutCancel ==
    /\ running' = FALSE
    /\ AudioStop
    /\ IF tasks = <<>> \/ tasks[Len(tasks)].at = "ended"
       THEN /\ client' = close(client)
            /\ UNCHANGED <<tasks, awaiting>>
       ELSE /\ tasks' = tasks
            /\ awaiting' = awaiting \cup {Len(tasks)}
            /\ client' = client
    /\ UNCHANGED <<started_at, total_chunks_sent, latest_transcript,
                   chunk_index, full_transcript, last_push_time, nonControl>>

ControlStop ==
    /\ running' = FALSE
    /\ AudioStop
    /\ IF tasks = <<>> \/ tasks[Len(tasks)].at = "ended"
       THEN /\ client' = close(client)
            /\ UNCHANGED <<tasks, awaiting>>
       ELSE /\ tasks' = [tasks EXCEPT ![Len(tasks)] = cancel(@)]
            /\ awaiting' = awaiting \cup {Len(tasks)}
            /\ client' = client
    /\ UNCHANGED <<started_at, total_chunks_sent, latest_transcript,
                   chunk_index, full_transcript, last_push_time, nonControl>>

\* stop, from the end of the task it awaits: the transcriber's client is
\* closed.
ControlStopReturns ==
    /\ \E t \in awaiting :
         /\ tasks[t].at = "ended"
         /\ awaiting' = awaiting \ {t}
    /\ client' = close(client)
    /\ UNCHANGED <<audioRunning, deviceVars, running, started_at,
                   total_chunks_sent, latest_transcript, chunk_index,
                   full_transcript, last_push_time, tasks, nonControl>>

\* What a task does when it is resumed at its await, until the next await.
TaskSteps == {"test", "on", "transcript", "emit"}

\* A cancelled task finds CancelledError at its await, which _run_loop does
\* not handle: it ends. Else, at the top: after the sleep the while test,
\* which ends the loop when the flag is cleared ("test"); after a broadcast
\* the next await of the body ("on"); after the transcription the transcript
\* is recorded and the loop over phrases entered ("transcript"). In the
\* loop over phrases: the next phrase event is composed, the counters are
\* incremented and the event is handed to the callback ("emit"), or the
\* phrases are exhausted and the while test follows ("test").
TaskResumes ==
    /\ \E t \in 1..Len(tasks), step \in TaskSteps :
         /\ tasks[t].at # "ended"
         /\ IF tasks[t].cancelled
            THEN /\ tasks' = [tasks EXCEPT ![t].at = "ended"]
                 /\ UNCHANGED <<total_chunks_sent, latest_transcript,
                                chunk_index, full_transcript, last_push_time>>
            ELSE CASE step = "test" ->
                        /\ tasks' = [tasks EXCEPT ![t].at =
                                       IF running THEN "top" ELSE "ended"]
                        /\ UNCHANGED <<total_chunks_sent, latest_transcript,
                                       chunk_index, full_transcript,
                                       last_push_time>>
                   [] step = "on" ->
                        /\ tasks[t].at = "top"
                        /\ UNCHANGED <<tasks, total_chunks_sent,
                                       latest_transcript, chunk_index,
                                       full_transcript, last_push_time>>
                   [] step = "transcript" ->
                        /\ tasks[t].at = "top"
                        /\ Len(full_transcript) < MaxChunks
                        /\ tasks' = [tasks EXCEPT ![t].at = "phrases"]
                        /\ full_transcript' = Append(full_transcript, "milk")
                        /\ latest_transcript' = <<"milk">>
                        /\ UNCHANGED <<total_chunks_sent, chunk_index,
                                       last_push_time>>
                   [] step = "emit" ->
                        /\ tasks[t].at = "phrases"
                        /\ tasks[t].emits < MaxChunks
                        /\ tasks' = [tasks EXCEPT ![t].emits = @ + 1]
                        /\ chunk_index' = chunk_index + 1
                        /\ total_chunks_sent' = total_chunks_sent + 1
                        /\ last_push_time' = now
                        /\ UNCHANGED <<latest_transcript, full_transcript>>
    /\ UNCHANGED <<audioRunning, deviceVars, running, started_at, client,
                   awaiting, nonControl>>

ControlInit ==
    /\ tasks = <<>>
    /\ awaiting = {}

----------------------------------------------------------------------------
(* PhonemeEngine *)

Phoneme(i, ty, st, du) ==
    [id |-> i, type |-> ty, start |-> st, duration |-> du]

\* An entry of a lesson file's phoneme list: a well-formed phoneme, or an
\* entry that lacks a required key.
Entry(ph) == [ok |-> TRUE, ph |-> ph]
Malformed == [ok |-> FALSE, ph |-> Phoneme(0, "", 0, 0)]

\* The lesson of two phonemes of 1 s each, back to back.
ExampleLesson == <<Phoneme(1, "vowel", 0, 4), Phoneme(2, "consonant", 4, 4)>>

\* Overlapping phonemes and one of duration 0.
OverlapLesson == <<Phoneme(3, "vowel", 0, 3), Phoneme(4, "consonant", 1, 3),
                   Phoneme(5, "buzz", 2, 0)>>

\* What a lesson path may name: a file that cannot be read, one that is not
\* JSON, a JSON document that is not an object, or an object with a phoneme
\* list.
LessonFiles ==
    { [kind |-> "unreadable", entries |-> <<>>],
      [kind |-> "invalid_json", entries |-> <<>>],
      [kind |-> "not_object", entries |-> <<>>],
      [kind |-> "object", entries |-> <<>>],
      [kind |-> "object",
       entries |-> <<Entry(ExampleLesson[1]), Entry(ExampleLesson[2])>>],
      [kind |-> "object",
       entries |-> <<Entry(OverlapLesson[1]), Entry(OverlapLesson[2]),
                     Entry(OverlapLesson[3])>>],
      [kind |-> "object",
       entries |-> <<Entry(Phoneme(6, "vowel", 0, 2)), Malformed>>],
      [kind |-> "object",
       entries |-> <<Malformed, Entry(Phoneme(7, "vowel", 0, 2))>>] }

\* The loop of load_lesson over the phoneme list: the list built, and whether
\* the loop reached its end.
RECURSIVE LoadEntries(_, _)
LoadEntries(entries, acc) ==
    IF entries = <<>> THEN [ok |-> TRUE, phonemes |-> acc]
    ELSE IF ~Head(entries).ok THEN [ok |-> FALSE, phonemes |-> acc]
    ELSE LoadEntries(Tail(entries), Append(acc, Head(entries).ph))

\* load_lesson: what it returns and the phoneme list it leaves, old being the
\* list before.
load_lesson(file, old) ==
    IF file.kind \in {"unreadable", "invalid_json"}
    THEN [ok |-> FALSE, phonemes |-> old]
    ELSE IF file.kind = "not_object" THEN [ok |-> FALSE, phonemes |-> <<>>]
    ELSE LoadEntries(file.entries, <<>>)

\* Phoneme.is_active_at_time
IsActiveClosedEnd(ph, t) == ph.start <= t /\ t <= ph.start + ph.duration

is_active_at_time(ph, t) == ph.start <= t /\ t < ph.start + ph.duration

\* get_active_phonemes: the active phonemes, in list order.
get_active_phonemes(phs, t) ==
    SelectSeq(phs, LAMBDA ph : is_active_at_time(ph, t))

Ids(phs) == [i \in 1..Len(phs) |-> phs[i].id]

\* get_current_phoneme: the first active phoneme of the first type, in
\* priority order, that an active phoneme has; else the first active one.
NoPhoneme == Phoneme(-1, "", 0, 0)

PRIORITY_ORDER == <<"consonant", "vowel", "buzz", "silence">>

get_current_phoneme(phs, t) ==
    LET active == get_active_phonemes(phs, t)
        ranks == {k \in 1..4 : \E i \in 1..Len(active) :
                                   active[i].type = PRIORITY_ORDER[k]}
    IN  IF active = <<>> THEN NoPhoneme
        ELSE IF ranks = {} THEN active[1]
        ELSE LET k == CHOOSE r \in ranks : \A r2 \in ranks : r <= r2
                 i == CHOOSE j \in 1..Len(active) :
                        /\ active[j].type = PRIORITY_ORDER[k]
                        /\ \A j2 \in 1..(j - 1) :
                              active[j2].type # PRIORITY_ORDER[k]
             IN  active[i]

\* max(p.start + p.duration for p in lesson_phonemes), of a non-empty list.
TotalDuration(phs) ==
    CHOOSE m \in {phs[i].start + phs[i].duration : i \in 1..Len(phs)} :
       \A i \in 1..Len(phs) : phs[i].start + phs[i].duration <= m

\* get_playback_progress.  The progress value is the quotient num / den;
\* is_playing is the flag as Python prints it; keys the returned dict lacks
\* are "absent".
Quotient(n, d) == [num |-> n, den |-> d]

get_playback_progress(phs, t, playing) ==
    IF phs = <<>>
    THEN [progress |-> Quotient(0, 1), current_time |-> 0,
          total_duration |-> 0, is_playing |-> "absent",
          current_phoneme |-> "absent"]
    ELSE [progress |-> (IF TotalDuration(phs) > 0
                        THEN (IF t < TotalDuration(phs)
                              THEN Quotient(t, TotalDuration(phs))
                              ELSE Quotient(1, 1))
                        ELSE Quotient(0, 1)),
          current_time |-> t,
          total_duration |-> TotalDuration(phs),
          is_playing |-> (IF playing THEN "True" ELSE "False"),
          current_phoneme |-> get_current_phoneme(phs, t).id]

\* The operation called last and whether the call before it was of the same
\* operation; of a pause and of a resume, when it was called, and of a resume
\* that follows a pause, how long the pause lasted; and whether
\* start_playback has been called with no stop_playback since.
Op(name) ==
    [op |-> name, again |-> engineOp.op = name, wall |-> FALSE,
     at |-> IF name \in {"pause_playback", "resume_playback"} THEN now ELSE 0,
     idle |-> IF name = "resume_playback" /\ engineOp.op = "pause_playback"
              THEN now - engineOp.at ELSE 0,
     started |-> IF name = "start_playback" THEN TRUE
                 ELSE IF name = "stop_playback" THEN FALSE
                 ELSE engineOp.started]

\* A call of update without a delta; when it follows a resume, the time of
\* that resume and the length of the pause it ended.
WallOp ==
    [op |-> "update", again |-> engineOp.op = "update", wall |-> TRUE,
     at |-> IF engineOp.op = "resume_playback" THEN engineOp.at ELSE 0,
     idle |-> IF engineOp.op = "resume_playback" THEN engineOp.idle ELSE 0,
     started |-> engineOp.started]

\* The variables no operation of the engine touches.
nonEngine == <<audioVars, pipeVars, text, audioLog, classVars, hubVars,
               mouthVars, msgVars, triggerVars, sourceVars, readVars,
               controlVars>>

\* load_lesson
LoadLesson ==
    /\ \E file \in LessonFiles :
         /\ lesson_phonemes' = load_lesson(file, lesson_phonemes).phonemes
         /\ loadResult' = (IF load_lesson(file, lesson_phonemes).ok
                           THEN "True" ELSE "False")
    /\ engineOp' = Op("load_lesson")
    /\ UNCHANGED <<current_time_offset, is_playing, last_processed_time,
                   on_haptic_trigger, triggered, nonEngine>>

\* set_haptic_callback
SetHapticCallback ==
    /\ on_haptic_trigger' = TRUE
    /\ engineOp' = Op("set_haptic_callback")
    /\ UNCHANGED <<lesson_phonemes, current_time_offset, is_playing,
                   last_processed_time, triggered, loadResult, nonEngine>>

\* The offsets a client starts playback at.
StartOffsets == {-2, 0, 3}

\* start_playback
StartPlayback ==
    /\ \E offset \in StartOffsets : current_time_offset' = offset
    /\ is_playing' = TRUE
    /\ last_processed_time' = now
    /\ engineOp' = Op("start_playback")
    /\ UNCHANGED <<lesson_phonemes, on_haptic_trigger, triggered, loadResult,
                   nonEngine>>

\* pause_playback
PausePlayback ==
    /\ is_playing' = FALSE
    /\ engineOp' = Op("pause_playback")
    /\ UNCHANGED <<lesson_phonemes, current_time_offset, last_processed_time,
                   on_haptic_trigger, triggered, loadResult, nonEngine>>

\* resume_playback
ResumeOnlyFromPosition ==
    /\ is_playing' = (current_time_offset > 0)
    /\ last_processed_time' = now
    /\ engineOp' = Op("resume_playback")
    /\ UNCHANGED <<lesson_phonemes, current_time_offset, on_haptic_trigger,
                   triggered, loadResult, nonEngine>>

ResumeKeepsTickReference ==
    /\ is_playing' = TRUE
    /\ last_processed_time' = last_processed_time
    /\ engineOp' = Op("resume_playback")
    /\ UNCHANGED <<lesson_phonemes, current_time_offset, on_haptic_trigger,
                   triggered, loadResult, nonEngine>>

ResumePlayback ==
    /\ is_playing' = TRUE
    /\ last_processed_time' = now
    /\ engineOp' = Op("resume_playback")
    /\ UNCHANGED <<lesson_phonemes, current_time_offset, on_haptic_trigger,
                   triggered, loadResult, nonEngine>>

\* stop_playback
StopPlaybackKeepsClock ==
    /\ is_playing' = FALSE
    /\ current_time_offset' = current_time_offset

stop_playback ==
    /\ is_playing' = FALSE
    /\ current_time_offset' = 0

StopPlayback ==
    /\ stop_playback
    /\ engineOp' = Op("stop_playback")
    /\ UNCHANGED <<lesson_phonemes, last_processed_time, on_haptic_trigger,
                   triggered, loadResult, nonEngine>>

\* update: with a delta given (wall = FALSE), or with the time since the
\* last wall-clock reading (wall = TRUE).
UpdateUnguarded(dt, wall) ==
    LET delta == IF wall THEN now - last_processed_time ELSE dt
        t == current_time_offset + delta
    IN  /\ last_processed_time' = (IF wall THEN now ELSE last_processed_time)
        /\ current_time_offset' = t
        /\ triggered' = (IF on_haptic_trigger
                         THEN Ids(get_active_phonemes(lesson_phonemes, t))
                         ELSE <<>>)
        /\ UNCHANGED is_playing

UpdateTriggersOnEntry(dt, wall) ==
    IF ~is_playing
    THEN /\ triggered' = <<>>
         /\ UNCHANGED <<current_time_offset, last_processed_time, is_playing>>
    ELSE LET delta == IF wall THEN now - last_processed_time ELSE dt
             t == current_time_offset + delta
             entered == SelectSeq(lesson_phonemes, LAMBDA ph :
                            /\ is_active_at_time(ph, t)
                            /\ ~is_active_at_time(ph, current_time_offset))
         IN  /\ last_processed_time' = (IF wall THEN now
                                        ELSE last_processed_time)
             /\ current_time_offset' = t
             /\ triggered' = (IF on_haptic_trigger THEN Ids(entered)
                              ELSE <<>>)
             /\ UNCHANGED is_playing

update(dt, wall) ==
    IF ~is_playing
    THEN /\ triggered' = <<>>
         /\ UNCHANGED <<current_time_offset, last_processed_time, is_playing>>
    ELSE LET delta == IF wall THEN now - last_processed_time ELSE dt
             t == current_time_offset + delta
         IN  /\ last_processed_time' = (IF wall THEN now
                                        ELSE last_processed_time)
             /\ current_time_offset' = t
             /\ triggered' = (IF on_haptic_trigger
                              THEN Ids(get_active_phonemes(lesson_phonemes,
                                                           t))
                              ELSE <<>>)
             /\ UNCHANGED is_playing

\* The deltas a caller ticks the engine by.
Deltas == {1, 2}

\* update(delta_time)
UpdateDelta ==
    /\ \E dt \in Deltas :
         /\ current_time_offset + dt <= MaxClock
         /\ update(dt, FALSE)
    /\ engineOp' = Op("update")
    /\ UNCHANGED <<lesson_phonemes, on_haptic_trigger, loadResult, nonEngine>>

\* update(), as the background task calls it every 50 ms
UpdateWall ==
    /\ current_time_offset + (now - last_processed_time) <= MaxClock
    /\ update(0, TRUE)
    /\ engineOp' = WallOp
    /\ UNCHANGED <<lesson_phonemes, on_haptic_trigger, loadResult, nonEngine>>

EngineInit ==
    /\ lesson_phonemes = <<>>
    /\ current_time_offset = 0
    /\ is_playing = FALSE
    /\ last_processed_time = 0
    /\ on_haptic_trigger = FALSE
    /\ triggered = <<>>
    /\ loadResult = "none"
    /\ engineOp = [op |-> "init", again |-> FALSE, wall |-> FALSE, at |-> 0,
                   idle |-> 0, started |-> FALSE]

----------------------------------------------------------------------------
(* ViewerManager *)

\* The sockets are numbered in the order connect registers them.
Sockets == 1..MaxSinks

\* The callers that broadcast to the viewers: the video handler, the
\* lip-reading task and trigger_haptic.
Callers == {"video", "lip_read", "haptic"}

Range(q) == {q[i] : i \in 1..Len(q)}

Without(q, gone) == SelectSeq(q, LAMBDA v : v \notin gone)

\* A call of broadcast: where it is suspended (idle when none is in flight),
\* the number of viewers its iteration has yielded, the viewer it is sending
\* to, and its list of failed viewers; as history, the membership when the
\* call began, the viewers it has sent to, in order, and whether the
\* membership was changed by others while it was in flight.
IdleBroadcast ==
    [pc |-> "idle", idx |-> 0, cur |-> 0, disconnected |-> <<>>,
     members |-> <<>>, tried |-> <<>>, interfered |-> FALSE]

\* The calls in flight other than c see the membership change.
Interfere(b, c) ==
    [k \in Callers |->
       IF k # c /\ b[k].pc = "send" THEN [b[k] EXCEPT !.interfered = TRUE]
       ELSE b[k]]

\* ViewerManager.disconnect: the list and the metadata keys it leaves.
disconnect(q, meta, ws) ==
    IF ws \in Range(q)
    THEN [viewers |-> Without(q, {ws}), viewer_metadata |-> meta \ {ws}]
    ELSE [viewers |-> q, viewer_metadata |-> meta]

\* for v in disconnected: self.disconnect(v)
RECURSIVE PruneStopsAtAbsent(_, _, _)
PruneStopsAtAbsent(q, meta, failed) ==
    IF failed = <<>> \/ Head(failed) \notin Range(q)
    THEN [viewers |-> q, viewer_metadata |-> meta]
    ELSE LET d == disconnect(q, meta, Head(failed))
         IN  PruneStopsAtAbsent(d.viewers, d.viewer_metadata, Tail(failed))

RECURSIVE Prune(_, _, _)
Prune(q, meta, failed) ==
    IF failed = <<>> THEN [viewers |-> q, viewer_metadata |-> meta]
    ELSE LET d == disconnect(q, meta, Head(failed))
         IN  Prune(d.viewers, d.viewer_metadata, Tail(failed))

\* The variables no operation of the viewer manager touches.
nonHub == <<audioVars, pipeVars, text, audioLog, classVars, engineVars,
            mouthVars, msgVars, triggerVars, sourceVars, readVars,
            controlVars>>

\* ViewerManager.connect, from the return of websocket.accept(), with or
\* without metadata
connect(metadata) ==
    /\ accepted < MaxSinks
    /\ accepted' = accepted + 1
    /\ viewers' = Append(viewers, accepted + 1)
    /\ viewer_metadata' = IF metadata THEN viewer_metadata \cup {accepted + 1}
                          ELSE viewer_metadata
    /\ bcast' = Interfere(bcast, "none")
    /\ UNCHANGED nonHub

HubConnect == \E metadata \in BOOLEAN : connect(metadata)

\* ViewerManager.disconnect, called by the handler of a socket
HubDisconnect ==
    \E ws \in {k \in Sockets : k <= accepted} :
       /\ viewers' = disconnect(viewers, viewer_metadata, ws).viewers
       /\ viewer_metadata' =
            disconnect(viewers, viewer_metadata, ws).viewer_metadata
       /\ bcast' = IF ws \in Range(viewers) THEN Interfere(bcast, "none")
                   ELSE bcast
       /\ UNCHANGED <<accepted, nonHub>>

\* broadcast called by c, from the call to its first send
BroadcastStart(c) ==
    /\ bcast[c].pc = "idle"
    /\ bcast' = [bcast EXCEPT ![c] =
         IF viewers = <<>> THEN IdleBroadcast
         ELSE [pc |-> "send", idx |-> 1, cur |-> viewers[1],
               disconnected |-> <<>>, members |-> viewers,
               tried |-> <<viewers[1]>>, interfered |-> FALSE]]
    /\ UNCHANGED <<viewers, viewer_metadata, accepted, nonHub>>

\* broadcast, from the return of a send to the next send or to the end: b is
\* the call, ok whether the send succeeded, q and meta the membership; the
\* call and the membership after.
BroadcastStopsAtFailure(b, ok, q, meta) ==
    LET failed == IF ok THEN b.disconnected ELSE Append(b.disconnected, b.cur)
    IN  IF ok /\ b.idx < Len(q)
        THEN [call |-> [b EXCEPT !.idx = @ + 1, !.cur = q[b.idx + 1],
                                 !.tried = Append(@, q[b.idx + 1])],
              viewers |-> q, viewer_metadata |-> meta]
        ELSE [call |-> [b EXCEPT !.pc = "idle", !.disconnected = failed],
              viewers |-> Prune(q, meta, failed).viewers,
              viewer_metadata |-> Prune(q, meta, failed).viewer_metadata]

broadcast(b, ok, q, meta) ==
    LET failed == IF ok THEN b.disconnected ELSE Append(b.disconnected, b.cur)
    IN  IF b.idx < Len(q)
        THEN [call |-> [b EXCEPT !.idx = @ + 1, !.cur = q[b.idx + 1],
                                 !.disconnected = failed,
                                 !.tried = Append(@, q[b.idx + 1])],
              viewers |-> q, viewer_metadata |-> meta]
        ELSE [call |-> [b EXCEPT !.pc = "idle", !.disconnected = failed],
              viewers |-> Prune(q, meta, failed).viewers,
              viewer_metadata |-> Prune(q, meta, failed).viewer_metadata]

\* A send of the broadcast called by c returns or raises.
BroadcastSendReturns(c) ==
    /\ bcast[c].pc = "send"
    /\ \E ok \in BOOLEAN :
         LET r == broadcast(bcast[c], ok, viewers, viewer_metadata)
             b == [bcast EXCEPT ![c] = r.call]
         IN  /\ viewers' = r.viewers
             /\ viewer_metadata' = r.viewer_metadata
             /\ bcast' = IF r.viewers # viewers THEN Interfere(b, c) ELSE b
    /\ UNCHANGED <<accepted, nonHub>>

HubInit ==
    /\ viewers = <<>>
    /\ viewer_metadata = {}
    /\ bcast = [c \in Callers |-> IdleBroadcast]
    /\ accepted = 0

----------------------------------------------------------------------------
(* LipReadingEngine: mouth movement tracking.  Openness in units of 0.001. *)

Abs(x) == IF x < 0 THEN -x ELSE x

Max0(x) == IF x < 0 THEN 0 ELSE x

\* The branches of update_mouth_state: the state and the talking-frame
\* counter, from the sample, the previous sample and the counter before.
MouthTalksAfterTwo(openness, prev, frames) ==
    LET velocity == openness - prev IN
    IF openness < 10 THEN [state |-> "closed", frames |-> 0]
    ELSE IF Abs(velocity) > 3
         THEN [state |-> IF frames + 1 >= 2 THEN "talking" ELSE "open",
               frames |-> frames + 1]
    ELSE IF openness > 20
         THEN [state |-> "open", frames |-> Max0(frames - 1)]
    ELSE [state |-> "closed", frames |-> 0]

MouthCountsDownUnclamped(openness, prev, frames) ==
    LET velocity == openness - prev IN
    IF openness < 10 THEN [state |-> "closed", frames |-> 0]
    ELSE IF Abs(velocity) > 3
         THEN [state |-> IF frames + 1 > 2 THEN "talking" ELSE "open",
               frames |-> frames + 1]
    ELSE IF openness > 20
         THEN [state |-> "open", frames |-> frames - 1]
    ELSE [state |-> "closed", frames |-> 0]

MouthBranch(openness, prev, frames) ==
    LET velocity == openness - prev IN
    IF openness < 10 THEN [state |-> "closed", frames |-> 0]
    ELSE IF Abs(velocity) > 3
         THEN [state |-> IF frames + 1 > 2 THEN "talking" ELSE "open",
               frames |-> frames + 1]
    ELSE IF openness > 20
         THEN [state |-> "open", frames |-> Max0(frames - 1)]
    ELSE [state |-> "closed", frames |-> 0]

\* The last HistoryLen samples.
Window(q) == IF Len(q) > HistoryLen THEN Tail(q) ELSE q

\* The openness samples the face tracker delivers: values on which the
\* floating-point subtraction and comparisons of the code agree with the
\* exact ones.
Samples == {0, 10, 19, 20, 21, 24, 50, 90, 100}

\* update_mouth_state
UpdateMouthState ==
    /\ Len(returned) < MaxSamples
    /\ \E openness \in Samples :
         LET r == MouthBranch(openness, prev_openness, talking_frames) IN
         /\ openness_history' = Window(Append(openness_history, openness))
         /\ prev_openness' = openness
         /\ talking_frames' = r.frames
         /\ mouth_state' = r.state
         /\ returned' = Append(returned, r.state)
    /\ UNCHANGED <<audioVars, pipeVars, text, audioLog, classVars,
                   engineVars, hubVars, msgVars, triggerVars,
                   sourceVars, readVars,
                   controlVars>>

MouthInit ==
    /\ prev_openness = 0
    /\ openness_history = <<>>
    /\ mouth_state = "closed"
    /\ talking_frames = 0
    /\ returned = <<>>

----------------------------------------------------------------------------
(* HapticEventManager.  Confidence in units of 0.01. *)

\* The table __init__ builds.
PatternTable ==
    [ty \in {"vowel", "consonant", "buzz", "silence"} |->
       CASE ty = "vowel" -> <<100, 50, 100>>
         [] ty = "consonant" -> <<200, 100, 200>>
         [] ty = "buzz" -> <<50, 25, 50, 25, 50>>
         [] ty = "silence" -> <<>>]

\* get_pattern: the stored list, or [100] for a type the table lacks.
get_pattern(table, ty) == IF ty \in DOMAIN table THEN table[ty] ELSE <<100>>

\* [int(p * 0.5) for p in pattern], of magnitudes that are not negative
Halved(pattern) == [i \in 1..Len(pattern) |-> pattern[i] \div 2]

\* trigger_haptic, from the call to the broadcast to the viewers: the event
\* composed and the table left.
TriggerScalesInPlace(table, ty, confidence) ==
    LET pattern == get_pattern(table, ty) IN
    IF confidence < 70
    THEN [event |-> [phoneme_type |-> ty, confidence |-> confidence,
                     pattern |-> Halved(pattern)],
          table |-> [k \in DOMAIN table |->
                       IF k = ty THEN Halved(pattern) ELSE table[k]]]
    ELSE [event |-> [phoneme_type |-> ty, confidence |-> confidence,
                     pattern |-> pattern],
          table |-> table]

trigger_haptic(table, ty, confidence) ==
    LET pattern == get_pattern(table, ty) IN
    [event |-> [phoneme_type |-> ty, confidence |-> confidence,
                pattern |-> IF confidence < 70 THEN Halved(pattern)
                            ELSE pattern],
     table |-> table]

\* The phoneme types and confidences trigger_haptic is called with.
PhonemeTypes == {"vowel", "consonant", "buzz", "silence", "click"}

Confidences == {0, 50, 69, 70, 71, 100}

TriggerHaptic ==
    /\ Len(events) < MaxTriggers
    /\ \E ty \in PhonemeTypes, confidence \in Confidences :
         LET r == trigger_haptic(haptic_patterns, ty, confidence) IN
         /\ events' = Append(events, r.event)
         /\ haptic_patterns' = r.table
    /\ UNCHANGED <<audioVars, pipeVars, text, audioLog, classVars,
                   engineVars, hubVars, mouthVars, msgVars,
                   sourceVars, readVars,
                   controlVars>>

TriggerInit ==
    /\ haptic_patterns = PatternTable
    /\ events = <<>>

----------------------------------------------------------------------------
(* ConnectionManager, and trigger_haptic's delivery to viewers and phones *)

\* The sockets of the phones are numbered in the order connect registers
\* them.
PhoneSockets == 1..MaxPhones

\* The call of trigger_haptic in flight: where it is suspended ("viewers" in
\* a send of viewer_manager.broadcast, "phones" in a send of its own loop
\* over the phones, "idle" when none is in flight), the number of phones its
\* iteration has yielded, the phone it is sending to and its list of failed
\* phones; as history, the phones registered when the loop began and the
\* phones it has sent to, in order.
IdleFan ==
    [pc |-> "idle", idx |-> 0, cur |-> 0, disconnected |-> <<>>,
     members |-> <<>>, tried |-> <<>>]

\* The variables trigger_haptic and the two managers do not touch.
nonFan == <<audioVars, pipeVars, text, audioLog, classVars, engineVars,
            mouthVars, msgVars, readVars,
            controlVars>>

\* ConnectionManager.connect without metadata, from the return of
\* websocket.accept(), as websocket_video calls it
PhoneConnect ==
    /\ phones < MaxPhones
    /\ phones' = phones + 1
    /\ active_connections' = Append(active_connections, phones + 1)
    /\ UNCHANGED <<connection_metadata, fan, hubVars, triggerVars, nonFan>>

\* ConnectionManager.disconnect: the list and the metadata keys it leaves.
phone_disconnect(q, meta, ws) ==
    IF ws \in Range(q)
    THEN [conns |-> Without(q, {ws}), meta |-> meta \ {ws}]
    ELSE [conns |-> q, meta |-> meta]

\* ConnectionManager.disconnect, called by the handler of a phone's socket
PhoneDisconnect ==
    /\ \E ws \in {k \in PhoneSockets : k <= phones} :
         LET d == phone_disconnect(active_connections, connection_metadata,
                                   ws)
         IN  /\ active_connections' = d.conns
             /\ connection_metadata' = d.meta
    /\ UNCHANGED <<phones, fan, hubVars, triggerVars, nonFan>>

\* for ws in disconnected: connection_manager.disconnect(ws)
RECURSIVE PrunePhones(_, _, _)
PrunePhones(q, meta, failed) ==
    IF failed = <<>> THEN [conns |-> q, meta |-> meta]
    ELSE LET d == phone_disconnect(q, meta, Head(failed))
         IN  PrunePhones(d.conns, d.meta, Tail(failed))

\* trigger_haptic from the return of viewer_manager.broadcast to the first
\* send to a phone, or to its end when no phone is registered.
StartPhones(conns) ==
    IF conns = <<>> THEN IdleFan
    ELSE [pc |-> "phones", idx |-> 1, cur |-> conns[1],
          disconnected |-> <<>>, members |-> conns, tried |-> <<conns[1]>>]

\* trigger_haptic's loop over the phones, from the return of a send to the
\* next send or to the end: f is the call, ok whether the send succeeded, q
\* and meta the phones' registry; the call and the registry after.
SendToPhones(f, ok, q, meta) ==
    LET failed == IF ok THEN f.disconnected ELSE Append(f.disconnected, f.cur)
    IN  IF f.idx < Len(q)
        THEN [call |-> [f EXCEPT !.idx = @ + 1, !.cur = q[f.idx + 1],
                                 !.disconnected = failed,
                                 !.tried = Append(@, q[f.idx + 1])],
              conns |-> q, meta |-> meta]
        ELSE [call |-> [f EXCEPT !.pc = "idle", !.disconnected = failed],
              conns |-> PrunePhones(q, meta, failed).conns,
              meta |-> PrunePhones(q, meta, failed).meta]

\* The calls of trigger_haptic: the test endpoint's and a vowel of low
\* confidence from the phoneme engine's callback.
HapticCalls == {[type |-> "buzz", confidence |-> 100],
                [type |-> "vowel", confidence |-> 50]}

\* trigger_haptic, from the call to its first send: the event is composed,
\* viewer_manager.broadcast returns at once when there is no viewer, and the
\* loop over the phones is entered only when there is a phone.
HapticCall ==
    /\ fan.pc = "idle"
    /\ Len(events) < MaxTriggers
    /\ \E call \in HapticCalls :
         LET r == trigger_haptic(haptic_patterns, call.type, call.confidence)
         IN  /\ events' = Append(events, r.event)
             /\ haptic_patterns' = r.table
    /\ IF viewers = <<>>
       THEN /\ bcast' = [bcast EXCEPT !["haptic"] = IdleBroadcast]
            /\ fan' = StartPhones(active_connections)
       ELSE /\ bcast' = [bcast EXCEPT !["haptic"] =
                           [pc |-> "send", idx |-> 1, cur |-> viewers[1],
                            disconnected |-> <<>>, members |-> viewers,
                            tried |-> <<viewers[1]>>, interfered |-> FALSE]]
            /\ fan' = [IdleFan EXCEPT !.pc = "viewers"]
    /\ UNCHANGED <<viewers, viewer_metadata, accepted, active_connections,
                   connection_metadata, phones, nonFan>>

\* A send of the broadcast to the viewers returns or raises; when it was
\* the last, the failed viewers are pruned and the loop over the phones
\* begins.
HapticViewerSendReturns ==
    /\ fan.pc = "viewers"
    /\ \E ok \in BOOLEAN :
         LET r == broadcast(bcast["haptic"], ok, viewers, viewer_metadata)
             b == [bcast EXCEPT !["haptic"] = r.call]
         IN  /\ viewers' = r.viewers
             /\ viewer_metadata' = r.viewer_metadata
             /\ bcast' = IF r.viewers # viewers THEN Interfere(b, "haptic")
                         ELSE b
             /\ fan' = IF r.call.pc = "idle"
                       THEN StartPhones(active_connections)
                       ELSE fan
    /\ UNCHANGED <<accepted, active_connections, connection_metadata, phones,
                   triggerVars, nonFan>>

\* A send to a phone returns or raises; after the last the failed phones
\* are removed from the phones' registry.
HapticPhoneSendReturns ==
    /\ fan.pc = "phones"
    /\ \E ok \in BOOLEAN :
         LET r == SendToPhones(fan, ok, active_connections,
                               connection_metadata)
         IN  /\ fan' = r.call
             /\ active_connections' = r.conns
             /\ connection_metadata' = r.meta
    /\ UNCHANGED <<phones, hubVars, triggerVars, nonFan>>

SourceInit ==
    /\ active_connections = <<>>
    /\ connection_metadata = {}
    /\ phones = 0
    /\ fan = IdleFan

----------------------------------------------------------------------------
(* The inbound messages of the speech-haptic and viewer endpoints *)

ClientSockets == 1..MaxClients

\* What a client sends on the speech-haptic socket: text that is not JSON, a
\* JSON value that is not an object (an array, a number, null), a ping, an
\* object of another type.
ClientMessages == {"not_json", "non_object", "ping", "other_object"}

\* What a viewer sends: the same two kinds of text; an object that is no
\* control message; a control object with an unknown action; the three
\* control actions; a load_lesson whose lesson_name is a number; a
\* start_playback whose start_time is the JSON value true, which Python
\* reads as True and does arithmetic on as 1.
ViewerMessages == {"not_json", "non_object", "other_object",
                   "unknown_action", "load_lesson", "load_lesson_bad_name",
                   "start_playback", "start_playback_bad_time",
                   "pause_playback"}

NoMessage == [role |-> "none", ws |-> 0, kind |-> "none"]

Message(role, ws, kind) == [role |-> role, ws |-> ws, kind |-> kind]

\* The variables the handlers of the two endpoints do not touch.
nonMessage == <<audioVars, pipeVars, text, audioLog, classVars, mouthVars,
                triggerVars, sourceVars, readVars,
                controlVars>>

\* The registry of the speech-haptic manager: connect registers a socket
\* and disconnect removes it.
ws_connect(registry, ws) == registry \cup {ws}

ws_disconnect(registry, ws) == registry \ {ws}

\* websocket_speech_haptic, to its first receive: the manager registers the
\* socket.
ClientOpen ==
    /\ \E ws \in ClientSockets :
         /\ serving[ws] = "none"
         /\ \A k \in 1..(ws - 1) : serving[k] # "none"
         /\ clients' = ws_connect(clients, ws)
         /\ serving' = [serving EXCEPT ![ws] = "receiving"]
    /\ UNCHANGED <<lastMsg, engineVars, hubVars, nonMessage>>

\* What the body of websocket_speech_haptic's loop does with a message:
\* whether the handler stays in its loop.  json.loads raises JSONDecodeError,
\* which the inner handler passes over; data.get raises AttributeError on a
\* value that is not an object and the send of the pong may raise, which
\* reach the outer handler.
ClientStays(kind, sendOk) ==
    CASE kind = "not_json" -> TRUE
      [] kind = "non_object" -> FALSE
      [] kind = "ping" -> sendOk
      [] OTHER -> TRUE

\* websocket_speech_haptic receives a message; where the loop is left, the
\* manager's disconnect is called and the handler ends.
ClientMessage ==
    /\ \E ws \in ClientSockets, kind \in ClientMessages, sendOk \in BOOLEAN :
         /\ serving[ws] = "receiving"
         /\ lastMsg' = Message("client", ws, kind)
         /\ IF ClientStays(kind, sendOk)
            THEN UNCHANGED <<clients, serving>>
            ELSE /\ clients' = ws_disconnect(clients, ws)
                 /\ serving' = [serving EXCEPT ![ws] = "ended"]
    /\ UNCHANGED <<engineVars, hubVars, nonMessage>>

\* The peer of a client socket closes it: receive_text raises
\* WebSocketDisconnect.
ClientClose ==
    /\ \E ws \in ClientSockets :
         /\ serving[ws] = "receiving"
         /\ clients' = ws_disconnect(clients, ws)
         /\ serving' = [serving EXCEPT ![ws] = "ended"]
    /\ UNCHANGED <<lastMsg, engineVars, hubVars, nonMessage>>

\* websocket_viewer, to its first receive.
ViewerOpen == connect(FALSE)

\* The files a viewer's lesson_name names: the example lesson and a name
\* with no file.
NamedLessons ==
    {f \in LessonFiles :
       \/ f.kind = "unreadable"
       \/ f.entries = <<Entry(ExampleLesson[1]), Entry(ExampleLesson[2])>>}

\* The start_time values of a well-formed start_playback: absent (0.0) or a
\* number.
StartTimes == {0, 3}

\* websocket_viewer receives a message from a registered viewer: the calls
\* on the phoneme engine its control branches make; every exception of the
\* body is passed over and the loop goes on.
ViewerMessage ==
    /\ \E ws \in Range(viewers), kind \in ViewerMessages :
         /\ lastMsg' = Message("viewer", ws, kind)
         /\ CASE kind = "load_lesson" ->
                   /\ \E file \in NamedLessons :
                        /\ lesson_phonemes' =
                             load_lesson(file, lesson_phonemes).phonemes
                        /\ loadResult' =
                             (IF load_lesson(file, lesson_phonemes).ok
                              THEN "True" ELSE "False")
                   /\ engineOp' = Op("load_lesson")
                   /\ UNCHANGED <<current_time_offset, is_playing,
                                  last_processed_time>>
              [] kind = "start_playback" ->
                   /\ \E start_time \in StartTimes :
                        current_time_offset' = start_time
                   /\ is_playing' = TRUE
                   /\ last_processed_time' = now
                   /\ engineOp' = Op("start_playback")
                   /\ UNCHANGED <<lesson_phonemes, loadResult>>
              [] kind = "start_playback_bad_time" ->
                   /\ current_time_offset' = 1
                   /\ is_playing' = TRUE
                   /\ last_processed_time' = now
                   /\ engineOp' = Op("start_playback")
                   /\ UNCHANGED <<lesson_phonemes, loadResult>>
              [] kind = "pause_playback" ->
                   /\ is_playing' = FALSE
                   /\ engineOp' = Op("pause_playback")
                   /\ UNCHANGED <<lesson_phonemes, loadResult,
                                  current_time_offset, last_processed_time>>
              [] OTHER ->
                   UNCHANGED <<lesson_phonemes, loadResult,
                               current_time_offset, is_playing,
                               last_processed_time, engineOp>>
    /\ UNCHANGED <<on_haptic_trigger, triggered, clients, serving, hubVars,
                   nonMessage>>

MessagesInit ==
    /\ clients = {}
    /\ serving = [ws \in ClientSockets |-> "none"]
    /\ lastMsg = NoMessage

----------------------------------------------------------------------------
(* Specifications *)

\* The components a specification leaves alone stay as constructed.
ExtInit ==
    /\ audioLog = <<>>
    /\ ClassInit
    /\ EngineInit
    /\ HubInit
    /\ MouthInit
    /\ MessagesInit
    /\ TriggerInit
    /\ SourceInit
    /\ ReadInit
    /\ ControlInit

\* Energies the microphone delivers.
PipelineRms == {996, 1000, 4000, 4004}
CaptureRms == {996, 4004}

\* The pipeline: capture thread, orchestrator loop, start and stop, the clock.
Init ==
    /\ AudioInit
    /\ PipelineInit
    /\ hasKey \in BOOLEAN
    /\ SplitInit
    /\ ExtInit

Capture ==
    /\ CaptureLoop(PipelineRms, MaxChunks)
    /\ UNCHANGED <<pipeVars, text, extVars>>

Next ==
    \/ Capture
    \/ SetBroadcastCallback
    \/ Start
    \/ Stop
    \/ LoopPoll
    \/ LoopAfterEnergy
    \/ LoopAfterFast
    \/ LoopTranscribed
    \/ LoopWake
    \/ LoopAfterPhrase
    \/ Tick

Spec == Init /\ [][Next]_vars

\* AudioCapture alone: the capture thread against a consumer of pop_chunk.
InitCapture ==
    /\ AudioInit
    /\ PipelineInit
    /\ hasKey = TRUE
    /\ SplitInit
    /\ ExtInit

CaptureStart ==
    /\ \E opens \in BOOLEAN :
         /\ AudioStart(opens)
         /\ audioLog' = LogCall(audioLog, IF StartRaises(opens) THEN "raised"
                                          ELSE "start")
    /\ UNCHANGED <<chunks, captured, dropped, popRet, delivered, pops,
                   pipeVars, text, classVars, engineVars, hubVars,
                   mouthVars, msgVars, triggerVars, sourceVars, readVars,
                   controlVars>>

CaptureStop ==
    /\ AudioStop
    /\ audioLog' = LogCall(audioLog, "stop")
    /\ UNCHANGED <<chunks, captured, dropped, popRet, delivered, pops,
                   pipeVars, text, classVars, engineVars, hubVars,
                   mouthVars, msgVars, triggerVars, sourceVars, readVars,
                   controlVars>>

CapturePush ==
    /\ CaptureLoop(CaptureRms, MaxCaptured)
    /\ UNCHANGED <<pipeVars, text, extVars>>

CapturePop ==
    /\ ConsumerPop
    /\ UNCHANGED <<pipeVars, text, extVars>>

NextCapture ==
    \/ CaptureStart
    \/ CaptureStop
    \/ CapturePush
    \/ CapturePop

SpecCapture == InitCapture /\ [][NextCapture]_vars

\* start and stop of the pipeline against the loop tasks.
InitControl ==
    /\ AudioInit
    /\ PipelineInit
    /\ hasKey = TRUE
    /\ SplitInit
    /\ ExtInit

NextControl ==
    \/ ControlStart
    \/ ControlStop
    \/ ControlStopReturns
    \/ TaskResumes

SpecControl == InitControl /\ [][NextControl]_vars

\* Phrase segmentation alone.
InitSplit ==
    /\ AudioInit
    /\ PipelineInit
    /\ hasKey = TRUE
    /\ SplitInit
    /\ ExtInit

SplitBuild ==
    /\ SplitAppend
    /\ UNCHANGED <<audioVars, pipeVars, extVars>>

SplitLoad ==
    /\ SplitExample
    /\ UNCHANGED <<audioVars, pipeVars, extVars>>

NextSplit ==
    \/ SplitBuild
    \/ SplitLoad

SpecSplit == InitSplit /\ [][NextSplit]_vars

\* Phrase segmentation of texts whose tokens may have punctuation inside.
InitWords ==
    /\ AudioInit
    /\ PipelineInit
    /\ hasKey = TRUE
    /\ SplitInit
    /\ ExtInit

WordsBuild ==
    /\ WordsAppend
    /\ UNCHANGED <<audioVars, pipeVars, extVars>>

NextWords ==
    \/ WordsBuild
    \/ SplitLoad

SpecWords == InitWords /\ [][NextWords]_vars

\* Intensity classification alone.
InitClassify ==
    /\ AudioInit
    /\ PipelineInit
    /\ hasKey = TRUE
    /\ SplitInit
    /\ ExtInit

NextClassify == Classify

SpecClassify == InitClassify /\ [][NextClassify]_vars

\* The phoneme engine: its transport controls, loads, ticks and the clock.
InitEngine ==
    /\ AudioInit
    /\ PipelineInit
    /\ hasKey = TRUE
    /\ SplitInit
    /\ ExtInit

NextEngine ==
    \/ LoadLesson
    \/ SetHapticCallback
    \/ StartPlayback
    \/ PausePlayback
    \/ ResumePlayback
    \/ StopPlayback
    \/ UpdateDelta
    \/ UpdateWall
    \/ Tick

SpecEngine == InitEngine /\ [][NextEngine]_vars

\* The viewer manager: connects and disconnects against the broadcasts of
\* one caller.
InitHub ==
    /\ AudioInit
    /\ PipelineInit
    /\ hasKey = TRUE
    /\ SplitInit
    /\ ExtInit

VideoBroadcast == BroadcastStart("video")

VideoSendReturns == BroadcastSendReturns("video")

NextHub ==
    \/ HubConnect
    \/ HubDisconnect
    \/ VideoBroadcast
    \/ VideoSendReturns

SpecHub == InitHub /\ [][NextHub]_vars

\* The viewer manager under two broadcasts that overlap: the video handler's
\* and the lip-reading task's, against connects and disconnects.
InitOverlap ==
    /\ AudioInit
    /\ PipelineInit
    /\ hasKey = TRUE
    /\ SplitInit
    /\ ExtInit

OverlapConnect == accepted < MaxShared /\ HubConnect

LipReadBroadcast == BroadcastStart("lip_read")

LipReadSendReturns == BroadcastSendReturns("lip_read")

NextOverlap ==
    \/ OverlapConnect
    \/ HubDisconnect
    \/ VideoBroadcast
    \/ VideoSendReturns
    \/ LipReadBroadcast
    \/ LipReadSendReturns

SpecOverlap == InitOverlap /\ [][NextOverlap]_vars

\* The two endpoints that take inbound messages: clients and viewers open
\* and close their sockets and send messages.
InitMessages ==
    /\ AudioInit
    /\ PipelineInit
    /\ hasKey = TRUE
    /\ SplitInit
    /\ ExtInit

NextMessages ==
    \/ ClientOpen
    \/ ClientMessage
    \/ ClientClose
    \/ ViewerOpen
    \/ HubDisconnect
    \/ ViewerMessage

SpecMessages == InitMessages /\ [][NextMessages]_vars

\* The haptic-trigger helper alone.
InitTrigger ==
    /\ AudioInit
    /\ PipelineInit
    /\ hasKey = TRUE
    /\ SplitInit
    /\ ExtInit

NextTrigger == TriggerHaptic

SpecTrigger == InitTrigger /\ [][NextTrigger]_vars

\* AudioCapture's threads: start and stop against the reads of the capture
\* loops.
InitReads ==
    /\ AudioInit
    /\ PipelineInit
    /\ hasKey = TRUE
    /\ SplitInit
    /\ ExtInit

NextReads ==
    \/ ReadsStart
    \/ ReadsStop
    \/ ThreadReadReturns
    \/ ThreadReadFails
    \/ ThreadWake

SpecReads == InitReads /\ [][NextReads]_vars

\* trigger_haptic against the connects and disconnects of viewers and
\* phones.
InitFan ==
    /\ AudioInit
    /\ PipelineInit
    /\ hasKey = TRUE
    /\ SplitInit
    /\ ExtInit

FanViewerOpen ==
    /\ accepted < MaxPhones
    /\ ViewerOpen

NextFan ==
    \/ FanViewerOpen
    \/ HubDisconnect
    \/ PhoneConnect
    \/ PhoneDisconnect
    \/ HapticCall
    \/ HapticViewerSendReturns
    \/ HapticPhoneSendReturns

SpecFan == InitFan /\ [][NextFan]_vars

\* Mouth movement tracking alone.
InitMouth ==
    /\ AudioInit
    /\ PipelineInit
    /\ hasKey = TRUE
    /\ SplitInit
    /\ ExtInit

NextMouth == UpdateMouthState

SpecMouth == InitMouth /\ [][NextMouth]_vars

----------------------------------------------------------------------------
(* Properties of AudioCapture, checked under SpecCapture *)

\* C1: in every reachable state, under any interleaving of capture-loop
\* pushes and pop_chunk calls, the chunk queue holds at most 5 chunks.
QueueNeverExceedsFive == Len(chunks) <= 5

\* A push onto a full queue has happened and the queue is full.
QueueFullAfterOverflow == Len(chunks) = 5 /\ dropped # {}

\* C2: when the capture loop pushes a chunk while the queue already holds 5,
\* exactly the oldest queued chunk is evicted, the new chunk becomes the
\* newest entry, and the 4 remaining chunks keep their relative order.
OverflowEvictsOldest ==
    [][(captured' = captured + 1 /\ Len(chunks) = 5) =>
         /\ Len(chunks') = 5
         /\ chunks'[5].id = captured
         /\ \A i \in 1..4 : chunks'[i] = chunks[i + 1]
         /\ \A i \in 1..5 : chunks'[i] # chunks[1]
         /\ dropped' = dropped \cup {chunks[1].id}]_vars

\* The queue right after an overflowing push: the newest entry is the chunk
\* captured last, and the chunk evicted is older than every queued one.
NewestKeptAfterOverflow ==
    /\ Len(chunks) = 5
    /\ chunks[5].id = captured - 1
    /\ \E d \in dropped : d = chunks[1].id - 1

\* C3: pop_chunk never waits for data: on an empty queue it returns nothing
\* and leaves the queue unchanged; on a non-empty queue it removes and
\* returns the oldest queued chunk; so the chunks delivered are delivered in
\* capture order.
PopNonBlockingOldestFirst ==
    /\ [](pops < MaxPops => ENABLED CapturePop)
    /\ [][pops' = pops + 1 =>
            IF Len(chunks) = 0
            THEN popRet' = NoChunk /\ chunks' = chunks
            ELSE /\ popRet' = chunks[1]
                 /\ Len(chunks') = Len(chunks) - 1
                 /\ \A i \in 1..Len(chunks') : chunks'[i] = chunks[i + 1]]_vars
    /\ [](\A i, j \in 1..Len(delivered) :
              i < j => delivered[i] < delivered[j])

\* pop_chunk has returned chunks and has then found the queue empty.
PoppedThenEmpty ==
    /\ Len(delivered) >= 2
    /\ popRet = NoChunk
    /\ chunks = <<>>
    /\ dropped # {}

----------------------------------------------------------------------------
(* Properties of the orchestrator, checked under Spec *)

\* A step that broadcasts a phrase event.
PhraseBroadcast == sent'.n = sent.n + 1

IsEnergy(e) == e.type = "speech_haptic_energy"
IsFast(e) == e.type = "speech_haptic" /\ e.idx = -1
IsPhrase(e) == e.type = "speech_haptic" /\ e.idx >= 0
IsTranscribe(e) == e.type = "transcribe"

\* The loop holds a chunk it has popped.
HasChunk == chunk.id >= 0

\* C4, as claimed: for any two phrase events broadcast by the same
\* SpeechHapticPipeline instance, over any sequence of start() and stop()
\* calls on it, the later one carries a strictly greater chunk_index.
IndexIncreasesPerInstance ==
    [][(PhraseBroadcast /\ sent.n > 0) => sent'.idx > sent.idx]_vars

\* C4, amended: for any two phrase events broadcast in the same run of the
\* pipeline (between one start() that starts it and the next), the later
\* one carries a strictly greater chunk_index.
IndexIncreasesPerRun ==
    [][(PhraseBroadcast /\ sent.n > 0 /\ sent'.run = sent.run) =>
         sent'.idx > sent.idx]_vars

\* Two phrase events of the first run have been broadcast.
TwoPhrasesInOneRun == sent.n >= 2 /\ sent.run = 1 /\ sent.idx >= 1

\* C5: any two consecutive phrase events are at least 0.5 s apart, and the
\* first one of a run is at least 0.5 s after start(); this holds also
\* between the last phrase of one chunk and the first phrase of the next.
PhraseCadence ==
    [][PhraseBroadcast =>
         /\ sent.n > 0 => sent'.ts - sent.ts >= 2
         /\ sent'.ts - started_at >= 2
         /\ sent'.ts = now]_vars

\* The first phrase of a chunk has been broadcast after a phrase of an
\* earlier chunk, in the same run.
PhraseOfNextChunkPaced ==
    /\ pc = "phrase_cb"
    /\ sent.n >= 2
    /\ sent.run = 1
    /\ Cardinality({i \in 1..Len(calls) : IsPhrase(calls[i])}) = 1

\* Fast-path pulses are not paced: one is broadcast less than 0.5 s after
\* the last phrase event.
FastPulseUnpaced ==
    /\ pc = "fast_cb"
    /\ sent.n > 0
    /\ now - sent.ts < 2

\* C6: for every chunk the loop pops while a broadcast callback is set, it
\* emits exactly one energy event, carrying the chunk's energy (to four
\* decimals) and timestamp, whether or not the chunk is silent, and before
\* any haptic event or transcription call for that chunk.
EnergyEventFirst ==
    /\ [][(chunk' # chunk /\ cb) =>
            /\ Len(calls') = 1
            /\ IsEnergy(calls'[1])
            /\ pc' = "energy_cb"]_vars
    /\ [](\A i \in 1..Len(calls) :
            IsEnergy(calls[i]) =>
              /\ i = 1
              /\ calls[i].chunk = chunk.id
              /\ calls[i].ts = chunk.ts
              /\ calls[i].rms % 10 = 0
              /\ calls[i].rms - chunk.rms \in -5..5)

\* A silent chunk has been handled and its energy event is the one call made
\* for it.
EnergyEventForSilentChunk ==
    /\ HasChunk
    /\ chunk.rms < 1000
    /\ pc = "poll"
    /\ Len(calls) = 1
    /\ IsEnergy(calls[1])

\* C7: for a chunk whose energy is below the silence threshold 0.01 the
\* loop emits no haptic event, does not call the transcriber, and leaves the
\* transcript accumulator, the sequence index and the events-sent counter
\* unchanged.
SilentChunkSkipped ==
    /\ []((HasChunk /\ chunk.rms < 1000) =>
            /\ \A i \in 1..Len(calls) : IsEnergy(calls[i])
            /\ lastStt.kind = "none"
            /\ pc \in {"poll", "energy_cb", "done"})
    /\ [][((chunk' # chunk /\ chunk'.rms < 1000)
             \/ (chunk.rms < 1000 /\ pc = "energy_cb" /\ pc' # pc)) =>
            /\ full_transcript' = full_transcript
            /\ latest_transcript' = latest_transcript
            /\ chunk_index' = chunk_index
            /\ total_chunks_sent' = total_chunks_sent
            /\ sent' = sent]_vars

\* A silent chunk has been handled after phrases of an earlier chunk were
\* dispatched.
SilentChunkAfterPhrases ==
    /\ HasChunk
    /\ chunk.rms < 1000
    /\ pc = "poll"
    /\ running
    /\ chunk_index > 0
    /\ full_transcript # <<>>

\* C8: for a chunk whose energy exceeds the speaking threshold 0.04, popped
\* with the broadcast callback set, a fast-path haptic event (empty text,
\* chunk_index -1) is broadcast before the transcription call for that chunk
\* is started, whatever the transcription later returns.
FastPathBeforeTranscription ==
    (HasChunk /\ chunk.rms > 4000 /\ calls # <<>> /\ IsEnergy(calls[1])) =>
       /\ \A i \in 1..Len(calls) :
            IsTranscribe(calls[i]) =>
              \E k \in 1..(i - 1) :
                 /\ IsFast(calls[k])
                 /\ calls[k].text = <<>>
                 /\ calls[k].chunk = chunk.id
       /\ lastStt.kind # "none" => \E k \in 1..Len(calls) : IsFast(calls[k])
       /\ pc \in {"cadence_sleep", "phrase_cb"} =>
            \E k \in 1..Len(calls) : IsFast(calls[k])

\* The fast pulse of a chunk went out and its transcription then failed.
FastPulseThenFailedTranscription ==
    /\ HasChunk
    /\ chunk.rms > 4000
    /\ lastStt.kind = "exception"
    /\ Len(calls) = 3
    /\ IsFast(calls[2])
    /\ IsTranscribe(calls[3])

\* A transcription that returned the empty text or failed.
Failed(resp) == resp.kind \in {"nokey", "error", "exception"}
                  \/ (resp.kind = "success" /\ resp.text = <<>>)

\* C9: when the transcription of a chunk returns empty or fails (no API key,
\* error response, exception), the loop emits no phrase event for the chunk,
\* does not resubmit it, leaves the sequence index and the events-sent
\* counter unchanged, and is back at the top of its loop, still running.
FailedTranscriptionSkipsChunk ==
    /\ [][(lastStt.kind = "none" /\ lastStt'.kind # "none"
             /\ Failed(lastStt')) =>
            /\ pc' = "poll"
            /\ running'
            /\ calls' = calls
            /\ chunks' = chunks
            /\ chunk' = chunk
            /\ chunk_index' = chunk_index
            /\ total_chunks_sent' = total_chunks_sent
            /\ full_transcript' = full_transcript]_vars
    /\ [](Failed(lastStt) =>
            /\ \A i \in 1..Len(calls) : ~IsPhrase(calls[i])
            /\ Cardinality({i \in 1..Len(calls) : IsTranscribe(calls[i])}) = 1)

\* A transcription failed with an error response after phrases of an earlier
\* chunk were dispatched, and the loop is polling again.
LoopPollsAfterFailure ==
    /\ lastStt.kind = "error"
    /\ pc = "poll"
    /\ running
    /\ chunk_index > 0

----------------------------------------------------------------------------
(* Properties of phrase segmentation, checked under SpecSplit *)

\* C10: every phrase returned by phrase segmentation has between 2 and 8
\* words, for every input text.
PhraseWordCountInRange ==
    \A i \in 1..Len(split_phrases(text)) :
       Len(split_phrases(text)[i]) \in 2..8

----------------------------------------------------------------------------
(* Properties of intensity classification, checked under SpecClassify *)

Tiers == <<"silence", "low", "medium", "high", "burst">>

TierRank(t) == CHOOSE k \in 1..5 : Tiers[k] = t

\* C11: intensity classification is total and monotonic in the tier order
\* silence < low < medium < high < burst, every lower boundary inclusive:
\* e < 0.01 silence, 0.01 <= e < 0.04 low, 0.04 <= e < 0.10 medium,
\* 0.10 <= e < 0.20 high, e >= 0.20 burst.
IntensityTiers ==
    tier # "none" =>
       /\ tier \in Range(Tiers)
       /\ tier = "silence" <=> energy < 1000
       /\ tier = "low" <=> (1000 <= energy /\ energy < 4000)
       /\ tier = "medium" <=> (4000 <= energy /\ energy < 10000)
       /\ tier = "high" <=> (10000 <= energy /\ energy < 20000)
       /\ tier = "burst" <=> energy >= 20000
       /\ \A e \in Energies :
            energy <= e => TierRank(tier) <= TierRank(rms_to_intensity(e))

\* The energy 0.20, a lower boundary, has been classified burst.
BoundaryEnergyClassified == energy = 20000 /\ tier = "burst"

----------------------------------------------------------------------------
(* Properties of the phoneme engine, checked under SpecEngine *)

\* The last operation was a tick that found the engine playing, with the
\* haptic callback set.
TickedWhilePlaying ==
    engineOp.op = "update" /\ is_playing /\ on_haptic_trigger

\* C12: a phoneme is active at clock t iff start <= t < start + duration:
\* a tick hands the callback exactly the phonemes with that property at the
\* new clock; with the lesson of two 1 s phonemes, only the first at clock
\* 0.5 s and only the second at clock 1.0 s; a phoneme of duration 0 never.
HalfOpenActivation ==
    TickedWhilePlaying =>
       /\ \A i \in 1..Len(lesson_phonemes) :
            lesson_phonemes[i].id \in Range(triggered) <=>
               /\ lesson_phonemes[i].start <= current_time_offset
               /\ current_time_offset <
                    lesson_phonemes[i].start + lesson_phonemes[i].duration
       /\ \A i \in 1..Len(lesson_phonemes) :
            lesson_phonemes[i].duration = 0 =>
               lesson_phonemes[i].id \notin Range(triggered)
       /\ (lesson_phonemes = ExampleLesson /\ current_time_offset = 2) =>
             triggered = <<1>>
       /\ (lesson_phonemes = ExampleLesson /\ current_time_offset = 4) =>
             triggered = <<2>>

\* A tick has taken the clock of the two-phoneme lesson to 1.0 s.
SecondPhonemeAtBoundary ==
    /\ TickedWhilePlaying
    /\ lesson_phonemes = ExampleLesson
    /\ current_time_offset = 4
    /\ triggered = <<2>>

\* The engine's own state.
engineState == <<lesson_phonemes, current_time_offset, is_playing,
                 last_processed_time, on_haptic_trigger>>

\* C13: stop() can be called in any engine state, once or twice in a row;
\* it leaves clock = 0 and the engine not playing, and the loaded phoneme
\* list as it was.
EngineStopIdempotent ==
    /\ [](ENABLED StopPlayback)
    /\ [](engineOp.op = "stop_playback" =>
            current_time_offset = 0 /\ ~is_playing)
    /\ [][engineOp'.op = "stop_playback" =>
            lesson_phonemes' = lesson_phonemes]_vars
    /\ [][(engineOp.op = "stop_playback" /\ engineOp'.op = "stop_playback")
            => UNCHANGED engineState]_vars

\* stop() has been called twice in a row on an engine that had played a
\* lesson.
EngineStoppedTwice ==
    /\ engineOp.op = "stop_playback"
    /\ engineOp.again
    /\ lesson_phonemes = ExampleLesson
    /\ triggered # <<>>

\* C14: the clock advances only while the engine is playing: a tick issued
\* while it is stopped or paused changes neither the clock nor any other
\* engine state and invokes no haptic callback.
TickOnlyWhilePlaying ==
    /\ [][(engineOp'.op = "update" /\ ~is_playing) =>
            /\ UNCHANGED engineState
            /\ triggered' = <<>>]_vars
    /\ [][current_time_offset' # current_time_offset =>
            \/ is_playing
            \/ engineOp'.op \in {"start_playback", "stop_playback"}]_vars

\* A tick was issued while the engine was paused in the middle of a phoneme,
\* with the callback set.
TickWhilePaused ==
    /\ engineOp.op = "update"
    /\ ~is_playing
    /\ on_haptic_trigger
    /\ current_time_offset > 0
    /\ get_active_phonemes(lesson_phonemes, current_time_offset) # <<>>

\* C15: a lesson load that fails (unreadable file, invalid JSON, or a
\* malformed phoneme entry at any position) returns failure and leaves the
\* previously loaded phoneme list, the clock and the playing flag as they
\* were.
FailedLoadLeavesState ==
    [][(engineOp'.op = "load_lesson" /\ loadResult' = "False") =>
         /\ lesson_phonemes' = lesson_phonemes
         /\ current_time_offset' = current_time_offset
         /\ is_playing' = is_playing]_vars

\* C16: in every engine state reachable through load, start(offset), pause,
\* resume, stop and tick(dt), progress() reports a normalized progress value
\* within [0, 1].
ProgressWithinUnitInterval ==
    LET p == get_playback_progress(lesson_phonemes, current_time_offset,
                                   is_playing).progress
    IN  /\ p.den > 0
        /\ 0 <= p.num
        /\ p.num <= p.den

----------------------------------------------------------------------------
(* Properties of the viewer manager, checked under SpecHub *)

\* C17: broadcast delivers over a snapshot of the membership taken when it
\* starts: the viewers it sends to are, in order, the members at its start,
\* whatever connects and disconnects run while it is suspended in a send;
\* and broadcast itself changes the membership only after its delivery pass.
BroadcastOverSnapshot ==
    \A c \in Callers :
       /\ Len(bcast[c].tried) <= Len(bcast[c].members)
       /\ bcast[c].tried = SubSeq(bcast[c].members, 1, Len(bcast[c].tried))
       /\ bcast[c].pc = "idle" => bcast[c].tried = bcast[c].members
       /\ (bcast[c].pc = "send" /\ ~bcast[c].interfered) =>
             viewers = bcast[c].members

\* The viewers whose send failed in a call of broadcast.
FailedSinks(b) == Range(b.disconnected)

\* C18: when a broadcast call completes, exactly the members whose send
\* failed are removed from the membership, with their metadata, and the
\* others stay registered; a failed send does not stop the sends to the
\* members after it; removal happens only after all sends were attempted.
PruneAfterDelivery ==
    [][\A c \in Callers :
         /\ (bcast[c].pc = "send" /\ bcast'[c].pc = "idle") =>
               /\ viewers' = Without(viewers, FailedSinks(bcast'[c]))
               /\ viewer_metadata' =
                     viewer_metadata \ FailedSinks(bcast'[c])
               /\ ~bcast'[c].interfered =>
                     /\ bcast'[c].tried = bcast'[c].members
                     /\ viewers' = Without(bcast'[c].members,
                                           FailedSinks(bcast'[c]))
         /\ (bcast[c].pc = "send" /\ bcast'[c].pc = "send"
               /\ bcast'[c].tried # bcast[c].tried) =>
               /\ viewers' = viewers
               /\ viewer_metadata' = viewer_metadata
         /\ (bcast[c].pc = "send"
               /\ Len(bcast'[c].disconnected) > Len(bcast[c].disconnected)
               /\ bcast[c].idx < Len(viewers)) =>
               /\ bcast'[c].pc = "send"
               /\ bcast'[c].cur = viewers[bcast[c].idx + 1]
               /\ viewers' = viewers]_vars

\* A broadcast to three viewers has completed with the send to the second
\* one failed: the first and the third were sent to and are registered.
SecondOfThreeFailed ==
    \E c \in Callers :
       /\ bcast[c].pc = "idle"
       /\ ~bcast[c].interfered
       /\ bcast[c].members = <<1, 2, 3>>
       /\ bcast[c].tried = <<1, 2, 3>>
       /\ bcast[c].disconnected = <<2>>
       /\ viewers = <<1, 3>>
       /\ 2 \notin viewer_metadata

----------------------------------------------------------------------------
(* Properties of mouth movement tracking, checked under SpecMouth *)

\* C19: the state update_mouth_state returns follows the four-branch rule,
\* applied in order, with velocity = openness minus the previous sample (0
\* before the first): openness < 0.01 closed and counter reset; else
\* |velocity| > 0.003 counter + 1 and talking iff counter > 2 else open;
\* else openness > 0.02 open and counter decremented not below 0; else
\* closed and counter reset.  The inputs 0.0, 0.05, 0.09, 0.1 yield closed,
\* open, open, talking.
MouthStateFollowsRule ==
    /\ [][Len(returned') = Len(returned) + 1 =>
            LET openness == openness_history'[Len(openness_history')]
                velocity == openness - prev_openness
                state == returned'[Len(returned')]
            IN  /\ mouth_state' = state
                /\ prev_openness' = openness
                /\ IF openness < 10
                   THEN state = "closed" /\ talking_frames' = 0
                   ELSE IF velocity > 3 \/ velocity < -3
                   THEN /\ talking_frames' = talking_frames + 1
                        /\ state = (IF talking_frames' > 2 THEN "talking"
                                    ELSE "open")
                   ELSE IF openness > 20
                   THEN /\ state = "open"
                        /\ talking_frames' =
                             (IF talking_frames = 0 THEN 0
                              ELSE talking_frames - 1)
                   ELSE state = "closed" /\ talking_frames' = 0]_vars
    /\ [](openness_history = <<0, 50, 90, 100>> =>
            returned = <<"closed", "open", "open", "talking">>)

\* The samples 0.0, 0.05, 0.09, 0.1 have been delivered.
ExampleSamplesDelivered ==
    /\ openness_history = <<0, 50, 90, 100>>
    /\ mouth_state = "talking"
    /\ talking_frames = 3

----------------------------------------------------------------------------
(* Further properties of AudioCapture, checked under SpecCapture *)

LastCall == IF audioLog = <<>> THEN "none" ELSE audioLog[Len(audioLog)]

\* C20: AudioCapture.stop() can be called any number of times, also before
\* any start() and twice in a row after a start(); it leaves capture not
\* running and the stream, the device and the thread reference released.
CaptureStopIdempotent ==
    /\ [](ENABLED CaptureStop)
    /\ [](LastCall = "stop" =>
            ~audioRunning /\ ~stream /\ ~pa /\ ~thread)
    /\ [][(LastCall = "stop" /\ LastCall' = "stop") =>
            UNCHANGED <<audioRunning, stream, pa, thread>>]_vars

\* stop() has been called twice in a row after a start() that captured
\* chunks.
CaptureStoppedTwice ==
    /\ audioLog = <<"stop", "stop">>
    /\ captured > 0
    /\ ~audioRunning
    /\ ~thread

----------------------------------------------------------------------------
(* Further properties of the orchestrator, checked under Spec *)

\* A step of a start() call that raised.
StartRaised ==
    /\ startResult' = "raised"
    /\ startResult # "raised" \/ (~pa /\ pa')

\* C21: if the audio device cannot be opened, AudioCapture.start() raises and
\* starts no capture loop, and SpeechHapticPipeline.start() propagates it
\* leaving the pipeline not running: running flag false, no loop task
\* created, status and counters unchanged; a later start() opens the device
\* again.
StartFailureLeavesStopped ==
    /\ [][StartRaised =>
            /\ ~running'
            /\ ~audioRunning' /\ ~thread' /\ ~stream'
            /\ pc' = pc
            /\ UNCHANGED <<statusVars, chunk_index, full_transcript,
                           last_push_time, starts, chunks, captured>>]_vars
    /\ [](startResult = "raised" =>
            ~running /\ ~audioRunning /\ ~thread /\ pc \in {"none", "done"})
    /\ []((startResult = "raised" /\ starts < MaxStarts) =>
            ENABLED (Start /\ startResult' = "returned"))
    /\ [][(startResult = "raised" /\ startResult' = "returned") =>
            running' /\ audioRunning' /\ stream' /\ thread'
               /\ pc' = "poll"]_vars

\* start() has raised after a run that sent phrase events was stopped: the
\* status of that run is still there.
StartRaisedAfterRun ==
    /\ startResult = "raised"
    /\ starts = 1
    /\ pc = "done"
    /\ total_chunks_sent > 0
    /\ pa

\* C23: stopping the orchestrator cancels its loop: once stop() has
\* returned, the running flag is false, the loop task has finished, capture
\* is stopped, the transcription client is closed, and no energy or haptic
\* event is emitted and no transcription is called until the next start(),
\* wherever the loop was suspended when stop() was called.
StopCancelsLoop ==
    /\ [][(running /\ ~running') =>
            /\ pc' = "done"
            /\ ~audioRunning' /\ ~thread' /\ ~stream'
            /\ client' # "open"
            /\ client = "open" => client' = "closed"]_vars
    /\ [](~running =>
            /\ pc \in {"none", "done"}
            /\ ~audioRunning
            /\ client # "open")
    /\ [][~running' => (calls' = calls /\ sent' = sent)]_vars

\* stop() was called while the loop was suspended in the transcription call
\* for a chunk: the call was made, no response was handled, and the client
\* it had opened is closed.
StoppedDuringTranscription ==
    /\ ~running
    /\ pc = "done"
    /\ client = "closed"
    /\ calls # <<>>
    /\ IsTranscribe(calls[Len(calls)])
    /\ lastStt.kind = "none"

----------------------------------------------------------------------------
(* Properties of the inbound messages, checked under SpecMessages *)

\* The messages that are not JSON or not a well-formed control object.
MalformedMessages == {"not_json", "non_object", "load_lesson_bad_name",
                      "start_playback_bad_time"}

\* C22: a malformed inbound control message (text that is not JSON, or JSON
\* that is not a well-formed control object) is ignored: it changes no engine
\* or pipeline state, and the connection that sent it stays registered and
\* its handler goes on receiving.
MalformedMessageIgnored ==
    [][(lastMsg' # lastMsg /\ lastMsg'.kind \in MalformedMessages) =>
         /\ UNCHANGED <<engineState, statusVars, pc>>
         /\ lastMsg'.role = "client" =>
               /\ serving'[lastMsg'.ws] = "receiving"
               /\ lastMsg'.ws \in clients'
         /\ lastMsg'.role = "viewer" =>
               lastMsg'.ws \in Range(viewers')]_vars

----------------------------------------------------------------------------
(* Properties of the haptic-trigger helper, checked under SpecTrigger *)

\* The fixed pattern of a category.
FixedPattern(ty) ==
    CASE ty = "vowel" -> <<100, 50, 100>>
      [] ty = "consonant" -> <<200, 100, 200>>
      [] ty = "buzz" -> <<50, 25, 50, 25, 50>>
      [] ty = "silence" -> <<>>
      [] OTHER -> <<100>>

\* C24: the haptic-trigger helper sends the category's fixed pattern
\* unchanged when confidence >= 0.7 (0.7 included) and each magnitude
\* multiplied by 0.5 and truncated to an integer when confidence < 0.7, and
\* it never modifies the stored pattern table, so a low-confidence trigger
\* does not affect the pattern of later triggers.
TriggerPatternScaled ==
    /\ \A i \in 1..Len(events) :
         LET e == events[i]
             fixed == FixedPattern(e.phoneme_type)
         IN  /\ Len(e.pattern) = Len(fixed)
             /\ e.confidence >= 70 => e.pattern = fixed
             /\ e.confidence < 70 =>
                   \A k \in 1..Len(fixed) :
                      /\ 2 * e.pattern[k] <= fixed[k]
                      /\ fixed[k] < 2 * e.pattern[k] + 2
    /\ \A ty \in DOMAIN haptic_patterns :
         haptic_patterns[ty] = FixedPattern(ty)
    /\ DOMAIN haptic_patterns = {"vowel", "consonant", "buzz", "silence"}

\* A buzz was triggered at confidence 0.69 and then at confidence 0.7.
LowThenBoundaryConfidence ==
    /\ Len(events) = 2
    /\ events[1] = [phoneme_type |-> "buzz", confidence |-> 69,
                    pattern |-> <<25, 12, 25, 12, 25>>]
    /\ events[2] = [phoneme_type |-> "buzz", confidence |-> 70,
                    pattern |-> <<50, 25, 50, 25, 50>>]

----------------------------------------------------------------------------
(* The fate of the chunks, checked under SpecCapture *)

\* The chunks produced so far, the queued ones, and how often pop_chunk has
\* returned a chunk.
Produced == 0..(captured - 1)

Queued == {chunks[i].id : i \in 1..Len(chunks)}

TimesReturned(id) == Cardinality({i \in 1..Len(delivered) : delivered[i] = id})

\* C25, as claimed: every produced chunk is returned by pop_chunk once and
\* only once: a chunk that has left the queue was returned exactly once (and
\* a queued one not yet).
ChunkConsumedExactlyOnce ==
    \A id \in Produced :
       IF id \in Queued THEN TimesReturned(id) = 0
       ELSE TimesReturned(id) = 1

\* C25, amended: under any interleaving of the capture loop and the consumer
\* pop_chunk returns every produced chunk at most once; a chunk is either
\* still queued, or was returned exactly once, or was evicted by a push onto
\* the full queue and is never returned.
ChunkConsumedAtMostOnce ==
    \A id \in Produced :
       /\ TimesReturned(id) <= 1
       /\ Cardinality({k \in {"queued", "returned", "evicted"} :
                         \/ k = "queued" /\ id \in Queued
                         \/ k = "returned" /\ TimesReturned(id) = 1
                         \/ k = "evicted" /\ id \in dropped}) = 1

\* Chunks have been returned, evicted and are queued, and a chunk produced
\* after an evicted one has been returned.
ReturnedEvictedAndQueued ==
    /\ delivered # <<>>
    /\ chunks # <<>>
    /\ \E d \in dropped : d < delivered[Len(delivered)]

----------------------------------------------------------------------------
(* The cut rule of phrase segmentation, checked under SpecSplit *)

RECURSIVE Concat(_)
Concat(seqs) == IF seqs = <<>> THEN <<>> ELSE Head(seqs) \o Concat(Tail(seqs))

\* The test at the k-th word of a running phrase: a split-word with at
\* least 2 words in the phrase, or 8 words reached.
CutPoint(phrase, k) ==
    \/ Lower(phrase[k]) \in SPLIT_WORDS /\ k >= 2
    \/ k >= 8

\* The rule, of the phrases ph a segment seg is cut into.
CutRule(seg, ph) ==
    IF Len(seg) <= 8
    THEN seg # <<>> => ph = <<seg>>
    ELSE /\ Concat(ph) = seg
         /\ \A i \in 1..Len(ph) :
              /\ ph[i] # <<>>
              /\ Len(ph[i]) <= 8
              /\ \A k \in 1..(Len(ph[i]) - 1) : ~CutPoint(ph[i], k)
              /\ i < Len(ph) => CutPoint(ph[i], Len(ph[i]))

\* C26: within a punctuation-delimited segment of more than 8 words a
\* phrase is cut at a word only if the word is a split-word and the running
\* phrase including it has at least 2 words, or the running phrase has
\* reached 8 words, and it is cut at every such word; a split-word that is
\* the first word of a running phrase does not cut; no phrase exceeds 8
\* words; a segment of at most 8 words is one phrase even if it contains
\* split-words.
SegmentCutRule ==
    LET segs == RawSegments(text, <<>>) IN
    /\ \A i \in 1..Len(segs) : CutRule(segs[i], SegmentPhrases(segs[i]))
    /\ \A i \in 1..Len(split_phrases(text)) :
         Len(split_phrases(text)[i]) <= 8

\* A segment of 9 words that begins with a split-word: the split-word does
\* not cut, and the cut is forced at the 8th word.
SplitWordFirstThenForcedCut ==
    /\ Len(text) = 9
    /\ text[1] = "and"
    /\ split_phrases(text) = <<SubSeq(text, 1, 8), <<"milk">>>>

----------------------------------------------------------------------------
(* Further properties of the phoneme engine, checked under SpecEngine *)

\* C27: pause() and resume() leave the clock value unchanged, and wall-clock
\* time that passes while the engine is paused is never added to the clock:
\* the first wall-clock tick after resume() advances the clock only by the
\* time elapsed since resume().
PauseResumeKeepClock ==
    /\ [][engineOp'.op \in {"pause_playback", "resume_playback"} =>
            current_time_offset' = current_time_offset]_vars
    /\ [][(engineOp.op = "resume_playback" /\ engineOp'.op = "update"
             /\ engineOp'.wall) =>
            current_time_offset' =
               current_time_offset + (now - engineOp.at)]_vars

\* The engine was paused for a while and resumed, and the first wall-clock
\* tick came some time after the resume.
TickAfterPauseAndResume ==
    /\ engineOp.op = "update"
    /\ engineOp.wall
    /\ engineOp.idle > 0
    /\ 0 < engineOp.at
    /\ engineOp.at < now
    /\ last_processed_time = now
    /\ is_playing

\* C28: after a tick of a playing engine that has a haptic callback, the
\* callback has been invoked exactly once for each phoneme active at the new
\* clock value and for no other, in list order; and a phoneme triggered by one
\* tick and still active at the clock of the next is triggered by it again.
TimesTriggered(id) ==
    Cardinality({k \in 1..Len(triggered) : triggered[k] = id})

ListIndex(id) ==
    CHOOSE i \in 1..Len(lesson_phonemes) : lesson_phonemes[i].id = id

TickedWithCallback ==
    engineOp.op = "update" /\ is_playing /\ on_haptic_trigger

TriggeredAreTheActive ==
    TickedWithCallback =>
        /\ \A i \in 1..Len(lesson_phonemes) :
              TimesTriggered(lesson_phonemes[i].id)
                  = (IF /\ lesson_phonemes[i].start <= current_time_offset
                        /\ current_time_offset < lesson_phonemes[i].start
                                                   + lesson_phonemes[i].duration
                     THEN 1 ELSE 0)
        /\ \A k \in 1..Len(triggered) :
              \E i \in 1..Len(lesson_phonemes) :
                  lesson_phonemes[i].id = triggered[k]
        /\ \A j, k \in 1..Len(triggered) :
              j < k => ListIndex(triggered[j]) < ListIndex(triggered[k])

TriggeredAgainWhileActive ==
    (/\ TickedWithCallback
     /\ TickedWithCallback'
     /\ engineOp'.again)
        => \A i \in 1..Len(lesson_phonemes) :
              (/\ TimesTriggered(lesson_phonemes[i].id) = 1
               /\ lesson_phonemes[i].start <= current_time_offset'
               /\ current_time_offset' < lesson_phonemes[i].start
                                           + lesson_phonemes[i].duration)
                  => \E k \in 1..Len(triggered') :
                        triggered'[k] = lesson_phonemes[i].id

TickTriggersEachActiveOnce ==
    /\ []TriggeredAreTheActive
    /\ [][TriggeredAgainWhileActive]_vars

\* Two ticks in a row over the overlapping lesson: both of its phonemes that
\* are active at the new clock were active at the clock before, and the second
\* tick has triggered both again, in list order.
OverlapTriggeredOnSecondTick ==
    /\ TickedWithCallback
    /\ engineOp.again
    /\ lesson_phonemes = OverlapLesson
    /\ current_time_offset = 2
    /\ triggered = <<3, 4>>

\* C29: in every engine state, whatever the phoneme list, the clock and the
\* playing flag, get_playback_progress reports the clock as current_time, the
\* playing flag as is_playing, and as total_duration the greatest
\* start + duration of the loaded phonemes (0 when there is none).
ProgressReportsEngineState ==
    LET p == get_playback_progress(lesson_phonemes, current_time_offset,
                                   is_playing)
        ends == {lesson_phonemes[i].start + lesson_phonemes[i].duration :
                    i \in 1..Len(lesson_phonemes)}
    IN  /\ p.current_time = current_time_offset
        /\ p.is_playing = (IF is_playing THEN "True" ELSE "False")
        /\ \A e \in ends : e <= p.total_duration
        /\ IF ends = {} THEN p.total_duration = 0
           ELSE p.total_duration \in ends

\* C30: whatever connects and disconnects of other viewers run while a
\* broadcast is suspended in its sends, no viewer is sent the event twice, and
\* when the call has completed every viewer that was a member at its start
\* and is still registered has been sent the event.
TimesTried(b, s) == Cardinality({k \in 1..Len(b.tried) : b.tried[k] = s})

StayingMembersSentOnce ==
    \A c \in Callers :
       /\ \A s \in Sockets : TimesTried(bcast[c], s) <= 1
       /\ bcast[c].pc = "idle" =>
             \A s \in Range(bcast[c].members) \cap Range(viewers) :
                TimesTried(bcast[c], s) = 1

----------------------------------------------------------------------------
(* Properties of trigger_haptic's delivery, checked under SpecFan *)

\* C31: when a call of trigger_haptic has completed, every viewer and every
\* phone that was registered when the delivery to its role began and is
\* still registered has been sent the event; and the call removes a failed
\* viewer only from the viewers and a failed phone only from the phones.
HapticCallCompleted == fan.pc = "idle" /\ events # <<>>

FanoutReachesBothRoles ==
    HapticCallCompleted =>
        /\ \A v \in Range(bcast["haptic"].members) \cap Range(viewers) :
              v \in Range(bcast["haptic"].tried)
        /\ \A ph \in Range(fan.members) \cap Range(active_connections) :
              ph \in Range(fan.tried)

\* The half of C31 on the two registries: a step of the call in the viewers'
\* broadcast leaves the phones' registry as it is, and a step in the loop
\* over the phones leaves the viewers' registry as it is; what either
\* removes are the sockets whose send failed.
RolesIndependent ==
    [][/\ (fan.pc = "viewers" /\ fan' # fan) =>
             /\ active_connections' = active_connections
             /\ connection_metadata' = connection_metadata
             /\ viewers' = Without(viewers,
                                   Range(bcast'["haptic"].disconnected))
             /\ viewer_metadata' =
                   viewer_metadata \ Range(bcast'["haptic"].disconnected)
       /\ (fan.pc = "phones" /\ fan'.pc = "idle") =>
             /\ viewers' = viewers
             /\ viewer_metadata' = viewer_metadata
             /\ active_connections' = Without(active_connections,
                                              Range(fan'.disconnected))]_vars

----------------------------------------------------------------------------
(* Further properties of the pipeline, checked under Spec *)

\* C32: in every state, which is every point get_status can observe, the
\* events-sent counter equals the number of phrase events composed since
\* the last start() and equals the next sequence index; and a step that
\* hands an energy event or a fast-path pulse to the callback leaves the
\* counter as it is.
NewestCall(log) == log[Len(log)]

HandsOverUncounted ==
    /\ calls' # calls
    /\ calls' # <<>>
    /\ \/ NewestCall(calls').type = "speech_haptic_energy"
       \/ /\ NewestCall(calls').type = "speech_haptic"
          /\ NewestCall(calls').idx = FAST_INDEX

StatusCountsPhraseEvents ==
    /\ [](total_chunks_sent = emitted /\ total_chunks_sent = chunk_index)
    /\ [][HandsOverUncounted => total_chunks_sent' = total_chunks_sent]_vars

\* A chunk has produced an energy event, a fast-path pulse and two phrase
\* events, and two are counted.
TwoCountedAmongFourEvents ==
    /\ running
    /\ total_chunks_sent = 2
    /\ \E i, j \in 1..Len(calls) :
          /\ calls[i].type = "speech_haptic_energy"
          /\ calls[j].type = "speech_haptic"
          /\ calls[j].idx = FAST_INDEX
    /\ Cardinality({k \in 1..Len(calls) :
                       calls[k].type = "speech_haptic" /\ calls[k].idx >= 0})
          = 2

----------------------------------------------------------------------------
(* Further properties of the mouth tracking, checked under SpecMouth *)

\* C33: after every update the talking counter is not negative and is 0
\* when the state returned is closed; talking is returned only with a
\* counter of at least 3, which never exceeds the number of movement samples
\* since the last sample that returned closed; and a movement sample that is
\* the first or the second since then returns open.
SampleBefore(k) == IF k = 1 THEN 0 ELSE openness_history[k - 1]

\* The k-th sample took the branch that counts a movement.
MovementSample(k) ==
    /\ openness_history[k] >= 10
    /\ \/ openness_history[k] - SampleBefore(k) > 3
       \/ SampleBefore(k) - openness_history[k] > 3

\* The movement samples among the first k since the last that returned
\* closed.
MovesSinceReset(k) ==
    Cardinality({j \in 1..k :
                   /\ MovementSample(j)
                   /\ \A c \in j..k : returned[c] # "closed"})

TalkingCounterBounds ==
    /\ talking_frames >= 0
    /\ mouth_state = "closed" => talking_frames = 0
    /\ mouth_state = "talking" => talking_frames >= 3
    /\ talking_frames <= MovesSinceReset(Len(returned))
    /\ \A k \in 1..Len(returned) :
          /\ returned[k] = "talking" => MovesSinceReset(k) >= 3
          /\ (MovementSample(k) /\ MovesSinceReset(k) <= 2) =>
                returned[k] = "open"

\* Three movement samples from the start: open, open, talking.
TalkingOnThirdMovement ==
    /\ Len(returned) = 3
    /\ returned = <<"open", "open", "talking">>
    /\ MovesSinceReset(3) = 3
    /\ talking_frames = 3

\* C37: resume() has no guard: whatever the state, it sets the engine
\* playing and leaves the clock alone, so that after stop() or before any
\* start(), where the clock is 0, the engine plays from 0; and a tick of an
\* engine that plays without start() having been called advances the clock
\* and triggers the callback for the phonemes active at the new clock value.
ResumeStartsStoppedEngine ==
    /\ [](engineOp.op \in {"init", "stop_playback"} =>
            ~is_playing /\ current_time_offset = 0)
    /\ [][(engineOp'.op = "resume_playback" /\ now' = now) =>
            /\ is_playing'
            /\ current_time_offset' = current_time_offset
            /\ last_processed_time' = now]_vars
    /\ [][(~engineOp.started /\ is_playing /\ engineOp'.op = "update"
             /\ now' = now) =>
            /\ IF engineOp'.wall
               THEN current_time_offset' =
                       current_time_offset + (now - last_processed_time)
               ELSE current_time_offset' - current_time_offset \in Deltas
            /\ triggered' =
                  IF on_haptic_trigger
                  THEN Ids(get_active_phonemes(lesson_phonemes,
                                               current_time_offset'))
                  ELSE <<>>]_vars

\* The engine plays with no start_playback since it was constructed or
\* stopped last, which only a resume brings about, and a tick has advanced
\* the clock from 0 and triggered the callback.
TickTriggersAfterResumeOfStoppedEngine ==
    /\ ~engineOp.started
    /\ engineOp.op = "update"
    /\ is_playing
    /\ current_time_offset > 0
    /\ triggered # <<>>

----------------------------------------------------------------------------
(* The loop tasks under start and stop, checked under SpecControl *)

\* The tasks that can still run statements of _run_loop.
LiveTasks ==
    {t \in 1..Len(tasks) : tasks[t].at # "ended" /\ ~tasks[t].cancelled}

\* C39: at most one task of _run_loop can emit events at any time, and it is
\* the one the last start() created; a task is created, and the sequence
\* index, the counter of events and the transcript are reset, only by a
\* start() that finds the pipeline not running; and a phrase event is
\* emitted only by the task created last, never by a task that stop() has
\* cancelled, also when start() has run while stop() still awaits that task.
OneLoopEmits ==
    /\ [](LiveTasks \subseteq {Len(tasks)})
    /\ [][Len(tasks') # Len(tasks) => ~running /\ running']_vars
    /\ [][(\/ chunk_index' < chunk_index
           \/ total_chunks_sent' < total_chunks_sent
           \/ Len(full_transcript') < Len(full_transcript)) =>
            /\ ~running
            /\ Len(tasks') = Len(tasks) + 1]_vars
    /\ [][\A t \in 1..Len(tasks) :
            tasks'[t].emits # tasks[t].emits =>
               /\ t = Len(tasks)
               /\ ~tasks[t].cancelled
               /\ chunk_index' = chunk_index + 1]_vars

\* start() has run while stop() still awaits the task it cancelled: the
\* first task, which had emitted, is still suspended, and the second has
\* emitted an event with index 0.
SecondLoopEmitsWhileStopAwaitsFirst ==
    /\ Len(tasks) = 2
    /\ 1 \in awaiting
    /\ tasks[1].at = "phrases"
    /\ tasks[1].cancelled
    /\ tasks[1].emits >= 1
    /\ tasks[2].emits = 1
    /\ chunk_index = 1
    /\ running

----------------------------------------------------------------------------
(* Removal of viewers under overlapping broadcasts, checked under
   SpecOverlap *)

\* The call of c ends in this step.
BroadcastEnds(c) == bcast[c].pc = "send" /\ bcast'[c].pc = "idle"

\* C38: disconnect of a viewer that is not registered changes nothing; a
\* broadcast that ends removes exactly those of its failed viewers that are
\* still registered, also when another broadcast or a handler has removed
\* some of them before, and leaves every other member registered and in
\* place; a handler's disconnect removes its one viewer; no viewer is
\* registered twice, and none that was removed comes back.
RemovalIsIdempotent ==
    /\ [](\A ws \in Sockets \ Range(viewers) :
             disconnect(viewers, viewer_metadata, ws)
                = [viewers |-> viewers, viewer_metadata |-> viewer_metadata])
    /\ [](\A i, j \in 1..Len(viewers) : viewers[i] = viewers[j] => i = j)
    /\ [](viewer_metadata \subseteq Range(viewers))
    /\ [][\A c \in {"video", "lip_read"} :
            BroadcastEnds(c) =>
               /\ viewers' = Without(viewers, Range(bcast'[c].disconnected))
               /\ viewer_metadata' =
                     viewer_metadata \ Range(bcast'[c].disconnected)]_vars
    /\ [][accepted' = accepted =>
            /\ viewers' = Without(viewers, Range(viewers) \ Range(viewers'))
            /\ (\A c \in {"video", "lip_read"} : ~BroadcastEnds(c)) =>
                  Len(viewers') >= Len(viewers) - 1]_vars

\* Two broadcasts that overlapped both failed to send to the same viewer and
\* both have ended: the viewer is gone, another is still registered.
BothBroadcastsRemovedSameViewer ==
    \E ws \in Sockets :
       /\ bcast["video"].pc = "idle"
       /\ bcast["lip_read"].pc = "idle"
       /\ ws \in Range(bcast["video"].disconnected)
       /\ ws \in Range(bcast["lip_read"].disconnected)
       /\ ws \in Range(bcast["video"].members)
       /\ ws \in Range(bcast["lip_read"].members)
       /\ ws \notin Range(viewers)
       /\ viewers # <<>>

----------------------------------------------------------------------------
(* The tiers of the events the loop emits, checked under Spec *)

\* C36: every haptic event the loop hands to the broadcast callback has a
\* tier other than silence and a pattern that is not empty, and every fast
\* pulse (chunk_index -1) has the tier medium, high or burst.
EmittedEventsAreAudible ==
    \A k \in 1..Len(calls) :
       calls[k].type = "speech_haptic" =>
          /\ calls[k].intensity # "silence"
          /\ calls[k].pattern # <<>>
          /\ calls[k].idx = FAST_INDEX =>
                calls[k].intensity \in {"medium", "high", "burst"}

\* A chunk above 0.04 has been emitted twice, as a fast pulse and as a
\* phrase, both of tier medium.
FastPulseAndPhraseOfTierMedium ==
    \E j, k \in 1..Len(calls) :
       /\ j < k
       /\ calls[j].type = "speech_haptic" /\ calls[j].idx = FAST_INDEX
       /\ calls[k].type = "speech_haptic" /\ calls[k].idx >= 0
       /\ calls[j].intensity = "medium" /\ calls[k].intensity = "medium"
       /\ calls[k].pattern = <<60, 40, 60>>

----------------------------------------------------------------------------
(* Properties of the segmentation of any text, checked under SpecWords *)

\* A whitespace-delimited token with its punctuation characters removed:
\* one word, spelled of what is left, or nothing.
Stripped(tok) == SelectSeq(Spelling(tok), LAMBDA c : c \notin Punctuation)

RECURSIVE StrippedWords(_)
StrippedWords(t) ==
    IF t = <<>> THEN <<>>
    ELSE (IF Stripped(Head(t)) = <<>> THEN <<>> ELSE <<Stripped(Head(t))>>)
            \o StrippedWords(Tail(t))

\* The words of the returned phrases in order, each as it is spelled.
PhraseWords(t) ==
    LET ws == Concat(split_phrases(t)) IN [k \in 1..Len(ws) |-> <<ws[k]>>]

\* C35 as stated: the words of the returned phrases, concatenated in order,
\* are the whitespace-separated words of the input with the punctuation
\* characters removed, and no returned phrase is empty.
PhrasesKeepWhitespaceWords ==
    /\ PhraseWords(text) = StrippedWords(text)
    /\ \A i \in 1..Len(split_phrases(text)) : split_phrases(text)[i] # <<>>

\* C35, amended: the words of the returned phrases, concatenated in order,
\* are the words the input falls into when it is cut at whitespace and at
\* every punctuation character, a word with a punctuation character inside
\* counting as the two words around it; none is lost, duplicated or moved,
\* and no returned phrase is empty.
PhrasesKeepWordsCutAtPunctuation ==
    /\ Concat(split_phrases(text))
          = SelectSeq(Spelled(text), LAMBDA c : c \notin Punctuation)
    /\ \A i \in 1..Len(split_phrases(text)) : split_phrases(text)[i] # <<>>

\* The example sentence followed by a token with a hyphen inside: the scan
\* has cut the long segment in three, the hyphen has cut the token in two.
HyphenatedTokenAfterExample ==
    /\ text = ExampleSentence \o <<"milk-and">>
    /\ Len(split_phrases(text)) = 4
    /\ split_phrases(text)[3] = <<"bread", "milk">>
    /\ split_phrases(text)[4] = <<"and">>

----------------------------------------------------------------------------
(* Properties of the capture threads, checked under SpecReads *)

\* C34: a read that fails while capture is running leaves capture running
\* and the thread in its loop with the reads it had accumulated; the thread
\* start() created last has not left its loop while capture is running; and
\* the read of a thread that completes 1.2 s of audio queues a chunk, however
\* many reads of that thread have failed before.
ReadFailedAt(t) ==
    /\ t <= Len(loops')
    /\ audioRunning /\ audioRunning'
    /\ loops[t].at = "read"
    /\ loops'[t].errs = loops[t].errs + 1

ReadCompletedAt(t) ==
    /\ t <= Len(loops')
    /\ loops[t].at = "read"
    /\ loops[t].buf = READS_PER_CHUNK - 1
    /\ loops'[t].errs = loops[t].errs
    /\ loops'[t] # loops[t]

ReadErrorsDoNotStopCapture ==
    /\ [](audioRunning =>
            /\ Len(loops) >= 1
            /\ loops[Len(loops)].at # "ended")
    /\ [][\A t \in 1..Len(loops) :
            /\ ReadFailedAt(t) =>
                  /\ loops'[t].at = "sleep"
                  /\ loops'[t].buf = loops[t].buf
                  /\ chunks' = chunks
            /\ ReadCompletedAt(t) =>
                  /\ captured' = captured + 1
                  /\ Len(chunks') >= 1
                  /\ chunks'[Len(chunks')].id = captured
                  /\ loops'[t].buf = 0]_vars

\* A thread queued a chunk after one of its reads had failed, and it is
\* reading again.
ChunkQueuedAfterFailedRead ==
    /\ audioRunning
    /\ Len(loops) = 1
    /\ lastPush.by = 1
    /\ lastPush.errs >= 1
    /\ captured = 1
    /\ loops[1].at = "read"

\* C40: a chunk is queued only by the thread the last start() created, so
\* that at most one capture loop feeds the queue at any time, also when
\* start() follows a stop() whose join timed out.
OnlyNewestLoopQueues ==
    [][captured' # captured => lastPush'.by = Len(loops')]_vars

============================================================================
